---------------------------- MODULE Spec2Model ----------------------------
(***************************************************************************)
(* Model of the alert lifecycle and object-presence tracking of the        *)
(* monitoring agent:                                                        *)
(*   - AlertManager (backend/agent/utils/alert_manager.py): the in-memory   *)
(*     alert list, the alerts.json file, and the whole-collection rewrite;  *)
(*   - the pose and object detection worker threads (backend/agent/agent.py)*)
(*     which share one AlertManager, and the review interface               *)
(*     (admin/main.py) which builds a fresh AlertManager per call;          *)
(*   - YOLOv8ObjectDetector.update_object_tracking                          *)
(*     (backend/agent/models/yolov8/model.py).                              *)
(***************************************************************************)
EXTENDS Integers, Sequences, FiniteSets, TLC

(***************************************************************************)
(* Bounds of the model.                                                     *)
(***************************************************************************)
\* number of distinct values str(uuid.uuid4())[:8] can take in the model
NumIds == 2
\* Alert objects the single-writer client constructs, those loaded included
MaxObjs == 3
\* positive detections made by the two workers together
MaxDetections == 2
\* Alert objects, those loaded included, of the client that attaches evidence
MaxEvidenced == 2
\* calls made by the review interface
MaxAdminOps == 1
\* last value of the tracker's clock (seconds)
MaxTrackTime == 6
\* longest interval between two tracker ticks (seconds)
MaxGap == 4
\* largest capacity of a rolling buffer (frames, samples)
MaxCapacity == 2
\* frames the capture of one source delivers
MaxFrames == 4
\* samples the audio stream delivers, and the most it delivers in one callback
MaxSamples == 4
MaxChunk == 2
\* configured video sources, and calls of Agent.start that get past its guard
MaxSources == 3
MaxStarts == 2
\* persons in one frame
MaxPersons == 3
\* the seconds the wall clock passes through
MaxClock == 2

VARIABLES
    mem,        \* mem[m]: AlertManager.alerts of manager m (list of alert dicts)
    disk,       \* the alerts.json file
    files,      \* evidence files present on the file system
    now,        \* wall clock, in seconds
    nextObj,    \* number of Alert objects constructed so far
    pc,         \* pc[t]: position of thread t
    wbuf,       \* wbuf[t]: what thread t's open file object has buffered
    call,       \* call[t]: the call thread t is executing
    last,       \* the last call completed by the single-writer client
    detected,   \* Alert objects built for a positive detection (by object number)
    returned,   \* Alert objects whose add_alert returned
    marked,     \* alerts, by object number, whose review mark completed
    deleted,    \* alerts, by object number, whose review delete completed
    adminOps,   \* calls the review interface has made
    tracked_objects,  \* YOLOv8ObjectDetector.tracked_objects
    missing_objects,  \* YOLOv8ObjectDetector.missing_objects
    tnow,       \* time.time() at the latest tracker tick
    tresult,    \* what the latest update_object_tracking returned
    tdets,      \* the boxes the detector reported at the latest tracker tick
    seenAt,     \* per derived id: time of the latest tick that detected it
    phase,      \* per derived id: where it stands at the latest tick (see TrackerTick)
    streak,     \* per derived id: consecutive 1s-apart ticks that detected it (capped at 2)
    max_buffer_size,        \* VideoProcessor.max_buffer_size of source 0 (frames)
    frame_buffer,           \* VideoProcessor.frame_buffer of source 0
    reads,                  \* frames cap.read() has delivered from source 0
    rpc,                    \* rpc[t]: position of thread t inside read_frame
    worker_frame,       \* the frame the object worker's latest read_frame returned (0: none)
    audio_max_buffer_size,  \* AudioProcessor.max_buffer_size (samples)
    audio_buffer,           \* AudioProcessor.audio_buffer
    samples,                \* samples the audio stream has delivered
    xlast,                  \* the last buffer operation completed
    video_sources,      \* len(Agent.video_sources)
    show_visualization, \* Agent.show_visualization
    safe_mode,          \* Agent.safe_mode
    loadable,           \* the detectors whose load_model() succeeds on this machine
    running,            \* Agent.running
    caps,               \* caps[i]: VideoProcessor.cap of source i
    windows,            \* Agent.windows
    threads,            \* Agent.threads
    recording,          \* AudioProcessor.recording
    stream,             \* AudioProcessor.stream is an open input stream
    starts,             \* calls of Agent.start that got past its guard
    open_windows,       \* the windows of self.windows that exist in the GUI
    processor_thread,   \* AudioProcessor.processor_thread: "none", "alive" or "ended"
    reading,            \* the workers that passed "while self.running" and have not
                        \* called read_frame yet
    alast,              \* the last step of the agent
    poses,              \* the poses argument of check_inappropriate_contact
    contact,            \* what check_inappropriate_contact returned for poses
    moved               \* the argument before one wrist was moved, and which wrist

storeVars == <<mem, disk, files, now, nextObj, pc, wbuf, call, last,
               detected, returned, marked, deleted, adminOps>>
trackVars == <<tracked_objects, missing_objects, tnow, tresult, tdets, seenAt, phase, streak>>
bufVarsButLast == <<max_buffer_size, frame_buffer, reads, rpc, worker_frame,
                    audio_max_buffer_size, audio_buffer, samples>>
bufVars == <<max_buffer_size, frame_buffer, reads, rpc, worker_frame,
             audio_max_buffer_size, audio_buffer, samples, xlast>>
agentVars == <<video_sources, show_visualization, safe_mode, loadable, running, caps,
               windows, threads, recording, stream, starts, open_windows,
               processor_thread, reading, alast>>
contactVars == <<poses, contact, moved>>
vars == <<mem, disk, files, now, nextObj, pc, wbuf, call, last,
          detected, returned, marked, deleted, adminOps,
          tracked_objects, missing_objects, tnow, tresult, tdets, seenAt, phase, streak,
          max_buffer_size, frame_buffer, reads, rpc, worker_frame,
          audio_max_buffer_size, audio_buffer, samples, xlast,
          video_sources, show_visualization, safe_mode, loadable, running, caps,
          windows, threads, recording, stream, starts, open_windows,
          processor_thread, reading, alast, poses, contact, moved>>

(***************************************************************************)
(* Alert records.                                                           *)
(***************************************************************************)
\* Python's None for an optional path
None == <<>>

\* the values str(uuid.uuid4())[:8] is drawn from
ShortIds == 0 .. (NumIds - 1)

\* feedback texts the review interface submits
Feedbacks == {"note"}

\* Alert.__init__ followed by Alert.to_dict: the dict add_alert appends.
\* obj numbers the Alert object (it is not a field of the dict; it only lets
\* properties tell two dicts with the same id apart).
Alert(obj, id, timestamp, alert_type, description, video_path, audio_path) ==
    [ obj |-> obj,
      id |-> id,
      timestamp |-> timestamp,
      alert_type |-> alert_type,
      description |-> description,
      video_path |-> video_path,
      audio_path |-> audio_path,
      is_false_positive |-> FALSE,
      feedback |-> "" ]

\* VideoProcessor.save_alert_video / AudioProcessor.save_alert_audio: the path
\* alert_<key>_<strftime>.<ext>, key = "<pipeline>_<int(time.time())>"
video_path_for(pipeline, t) == <<pipeline, t, "mp4">>
audio_path_for(pipeline, t) == <<pipeline, t, "wav">>

(***************************************************************************)
(* AlertManager: list operations.                                           *)
(***************************************************************************)
\* index of the first alert with this id, 0 when there is none
RECURSIVE first_index(_, _, _)
first_index(alerts, alert_id, i) ==
    IF i > Len(alerts) THEN 0
    ELSE IF alerts[i].id = alert_id THEN i
    ELSE first_index(alerts, alert_id, i + 1)

\* get_alert_by_id: the first alert with this id ({} stands for None)
get_alert_by_id(alerts, alert_id) ==
    LET i == first_index(alerts, alert_id, 1)
    IN  IF i = 0 THEN {} ELSE {alerts[i]}

\* add_alert, line 79: self.alerts.append(alert_dict)
add_alert_append(alerts, alert_dict) == Append(alerts, alert_dict)

\* mark_as_false_positive with the flag flipped instead of set
mark_toggles_flag(alerts, alert_id, feedback) ==
    LET i == first_index(alerts, alert_id, 1)
    IN  IF i = 0 THEN alerts
        ELSE [alerts EXCEPT ![i].is_false_positive = ~alerts[i].is_false_positive,
                            ![i].feedback = feedback]

\* mark_as_false_positive, lines 98-101: the list after the two assignments
mark_as_false_positive(alerts, alert_id, feedback) ==
    LET i == first_index(alerts, alert_id, 1)
    IN  IF i = 0 THEN alerts
        ELSE [alerts EXCEPT ![i].is_false_positive = TRUE, ![i].feedback = feedback]

\* delete_alert with the pop placed after the loop: when no alert has this id,
\* i is still the last index and the last alert is popped
delete_alert_pop_after_loop(alerts, alert_id) ==
    LET i == first_index(alerts, alert_id, 1)
    IN  IF i = 0 THEN SubSeq(alerts, 1, Len(alerts) - 1)
        ELSE SubSeq(alerts, 1, i - 1) \o SubSeq(alerts, i + 1, Len(alerts))

\* delete_alert, line 119: self.alerts.pop(i) for the first alert with this id
delete_alert_pop(alerts, alert_id) ==
    LET i == first_index(alerts, alert_id, 1)
    IN  IF i = 0 THEN alerts
        ELSE SubSeq(alerts, 1, i - 1) \o SubSeq(alerts, i + 1, Len(alerts))

\* delete_alert, lines 111-116: the files os.remove is called on
delete_alert_files(alerts, alert_id, present) ==
    LET i == first_index(alerts, alert_id, 1)
    IN  IF i = 0 THEN {}
        ELSE {p \in {alerts[i].video_path, alerts[i].audio_path} : p # None /\ p \in present}

\* insertion of alert a into a list sorted by timestamp descending, after the
\* alerts with the same timestamp (sorted() is stable)
RECURSIVE insert_desc(_, _)
insert_desc(sorted, a) ==
    IF sorted = <<>> THEN <<a>>
    ELSE IF Head(sorted).timestamp >= a.timestamp
         THEN <<Head(sorted)>> \o insert_desc(Tail(sorted), a)
         ELSE <<a>> \o sorted

\* get_all_alerts returning self.alerts as it is, the sort left out
get_all_alerts_insertion_order(alerts) == alerts

\* get_all_alerts: sorted(self.alerts, key=timestamp, reverse=True)
RECURSIVE get_all_alerts(_)
get_all_alerts(alerts) ==
    IF alerts = <<>> THEN <<>>
    ELSE insert_desc(get_all_alerts(SubSeq(alerts, 1, Len(alerts) - 1)), alerts[Len(alerts)])

(***************************************************************************)
(* AlertManager: the alerts.json file.                                      *)
(***************************************************************************)
\* json.dump(self.alerts, f, indent=2): the text the file object buffers
json_dump(alerts) == [state |-> "json", data |-> alerts]

\* a file json.load raises on: empty (just truncated) or overlaid text
Corrupt == [state |-> "corrupt", data |-> <<>>]

\* no alerts.json: os.path.exists(ALERTS_DB_PATH) is False
Absent == [state |-> "absent", data |-> <<>>]

\* load_alerts, lines 57-64: json.load, [] when it raises
load_alerts(d) == IF d.state = "json" THEN d.data ELSE <<>>

\* open(ALERTS_DB_PATH, 'w'): the file is truncated
open_w(d) == Corrupt

\* closing the file object writes its buffer at offset 0 of the file. A file that
\* another descriptor has meanwhile filled with a longer text keeps that text's
\* tail: the result is no JSON document. With texts of as many records either
\* may be the longer.
close_flush(d, buf) ==
    IF d.state = "corrupt" \/ d = buf THEN {buf}
    ELSE IF Len(d.data) < Len(buf.data) THEN {buf}
    ELSE IF Len(d.data) > Len(buf.data) THEN {Corrupt}
    ELSE {buf, Corrupt}

\* outcomes of an I/O step
IoOutcomes == {"ok", "open_fails", "write_fails"}

\* save_alerts writing only the newest alert, as an append-only log would
save_alerts_newest_only(alerts, d, io) ==
    CASE io = "ok" -> json_dump(IF alerts = <<>> THEN <<>> ELSE <<alerts[Len(alerts)]>>)
      [] io = "open_fails" -> d
      [] io = "write_fails" -> open_w(d)

\* save_alerts run without interleaving: the file afterwards
save_alerts(alerts, d, io) ==
    CASE io = "ok" -> CHOOSE f \in close_flush(open_w(d), json_dump(alerts)) : TRUE
      [] io = "open_fails" -> d
      [] io = "write_fails" -> open_w(d)

\* load_alerts whose except clause names the decoding error only: a failure
\* of open() leaves the constructor
try_load_decode_errors_only(d, can_open) ==
    [alerts |-> IF can_open THEN load_alerts(d) ELSE <<>>, raised |-> ~can_open]

\* load_alerts, lines 57-64, on a file that exists: open(ALERTS_DB_PATH, 'r')
\* succeeds or raises (can_open), json.load raises on a text that is no JSON
\* document; except Exception catches either and leaves self.alerts = []
try_load(d, can_open) ==
    [alerts |-> IF can_open THEN load_alerts(d) ELSE <<>>, raised |-> FALSE]

\* delete_alert with os.remove outside a try block: its failure leaves the method
remove_uncaught(kept) == kept # {}

\* delete_alert, lines 113-116: whether a failure of os.remove (on the files
\* kept) leaves the method; except Exception catches it and prints
remove_propagates(kept) == FALSE

(***************************************************************************)
(* Threads and managers.                                                    *)
(***************************************************************************)
\* Agent._pose_detection_thread and Agent._object_detection_thread
Workers == {"pose", "object"}
\* the review interface (AlertState event handlers, one at a time)
Threads == Workers \cup {"admin"}
\* Agent.alert_manager, and the AlertManager() an AlertState handler builds
Managers == {"agent", "admin"}

\* the manager a thread calls
manager_of(t) == IF t \in Workers THEN "agent" ELSE "admin"

\* alert_type and description each worker passes to Alert(...)
alert_type_of(t) == IF t = "pose" THEN "inappropriate_contact" ELSE "object_theft"
description_of(t) == IF t = "pose" THEN "contact" ELSE "theft"

\* where a thread waits between calls: the top of the worker loop, or the
\* review interface waiting for an event
rest_of(t) == IF t \in Workers THEN "loop" ELSE "idle"

NoCall == [op |-> "none", obj |-> -1]
\* kept: the evidence files a delete_alert found and os.remove failed on
NoLast == [op |-> "none", id |-> -1, fb |-> "", ret |-> FALSE, raised |-> FALSE, kept |-> {}]

\* the collections alerts.json may hold when the agent is constructed
InitialAlerts ==
    { <<>>, <<Alert(0, 0, 0, "object_theft", "theft", None, None)>> }

InitStore ==
    /\ \E a \in InitialAlerts :
          /\ mem = [m \in Managers |-> IF m = "agent" THEN a ELSE <<>>]
          /\ disk = json_dump(a)
          /\ nextObj = Len(a)
    /\ files = {}
    /\ now = 0
    /\ pc = [t \in Threads |-> rest_of(t)]
    /\ wbuf = [t \in Threads |-> json_dump(<<>>)]
    /\ call = [t \in Threads |-> NoCall]
    /\ last = NoLast
    /\ detected = {}
    /\ returned = {}
    /\ marked = {}
    /\ deleted = {}
    /\ adminOps = 0

\* what alerts.json may be when the process starts
InitialDisks ==
    {Absent, Corrupt} \cup {json_dump(a) : a \in InitialAlerts}

\* the process before Agent.__init__ builds its AlertManager
InitFiles ==
    /\ disk \in InitialDisks
    /\ mem = [m \in Managers |-> <<>>]
    /\ nextObj = Len(disk.data)
    /\ files = {}
    /\ now = 0
    /\ pc = [t \in Threads |-> rest_of(t)]
    /\ wbuf = [t \in Threads |-> json_dump(<<>>)]
    /\ call = [t \in Threads |-> NoCall]
    /\ last = NoLast
    /\ detected = {}
    /\ returned = {}
    /\ marked = {}
    /\ deleted = {}
    /\ adminOps = 0

(***************************************************************************)
(* Single-writer client: one thread calling the agent's AlertManager, each  *)
(* call run to completion.                                                  *)
(***************************************************************************)
\* add_alert(Alert(alert_type, description)): an alert without evidence, whose
\* Alert.__init__ drew id
AddAlert(id, io) ==
    LET alert == Alert(nextObj, id, now, "object_theft", "theft", None, None)
        alerts == add_alert_append(mem["agent"], alert)
    IN  /\ nextObj < MaxObjs
        /\ mem' = [mem EXCEPT !["agent"] = alerts]
        /\ disk' = save_alerts(alerts, disk, io)
        /\ nextObj' = nextObj + 1
        /\ last' = [op |-> "add", id |-> id, fb |-> "", ret |-> id, raised |-> io # "ok",
                    kept |-> {}]
        /\ UNCHANGED <<files, now, pc, wbuf, call, detected, returned, marked, deleted, adminOps>>
        /\ UNCHANGED <<trackVars, bufVars, agentVars, contactVars>>

\* the values datetime.now() may give when an Alert is built. The timestamp is
\* its isoformat() string and sorted() compares those strings; every field of
\* the string has a fixed width, so the strings order as these numbers do. The
\* wall clock may be set back, so a later reading can be the smaller one.
ClockReadings == {0, 1, 2}

\* add_alert(Alert(alert_type, description, video_path, audio_path)) by the single
\* writer: Alert.__init__ drew id and read the clock at t; the evidence files
\* named by the paths were written before the Alert was built.
AddAlertAt(id, t, video_path, audio_path, io) ==
    LET alert == Alert(nextObj, id, t, "object_theft", "theft", video_path, audio_path)
        alerts == add_alert_append(mem["agent"], alert)
    IN  /\ mem' = [mem EXCEPT !["agent"] = alerts]
        /\ disk' = save_alerts(alerts, disk, io)
        /\ files' = files \cup ({video_path, audio_path} \ {None})
        /\ now' = t
        /\ nextObj' = nextObj + 1
        /\ last' = [op |-> "add", id |-> id, fb |-> "", ret |-> id, raised |-> io # "ok",
                    kept |-> {}]
        /\ UNCHANGED <<pc, wbuf, call, detected, returned, marked, deleted, adminOps>>
        /\ UNCHANGED <<trackVars, bufVars, agentVars, contactVars>>

\* mark_as_false_positive(alert_id, feedback)
MarkAsFalsePositive(alert_id, feedback, io) ==
    LET found == get_alert_by_id(mem["agent"], alert_id) # {}
        alerts == mark_as_false_positive(mem["agent"], alert_id, feedback)
    IN  /\ found \/ io = "ok"
        /\ mem' = [mem EXCEPT !["agent"] = alerts]
        /\ disk' = IF found THEN save_alerts(alerts, disk, io) ELSE disk
        /\ last' = [op |-> "mark", id |-> alert_id, fb |-> feedback, ret |-> found,
                    raised |-> found /\ io # "ok", kept |-> {}]
        /\ UNCHANGED <<files, now, nextObj, pc, wbuf, call,
                       detected, returned, marked, deleted, adminOps>>
        /\ UNCHANGED <<trackVars, bufVars, agentVars, contactVars>>

\* delete_alert(alert_id); os.remove may fail on any of the files
DeleteAlert(alert_id, io) ==
    LET found == get_alert_by_id(mem["agent"], alert_id) # {}
        alerts == delete_alert_pop(mem["agent"], alert_id)
        present == delete_alert_files(mem["agent"], alert_id, files)
    IN  /\ found \/ io = "ok"
        /\ \E removed \in SUBSET present :
              LET kept == present \ removed
                  aborted == remove_propagates(kept)
              IN  /\ files' = files \ removed
                  /\ mem' = [mem EXCEPT !["agent"] = IF aborted THEN mem["agent"] ELSE alerts]
                  /\ disk' = IF found /\ ~aborted THEN save_alerts(alerts, disk, io) ELSE disk
                  /\ last' = [op |-> "delete", id |-> alert_id, fb |-> "",
                              ret |-> found /\ ~aborted,
                              raised |-> aborted \/ (found /\ io # "ok"),
                              kept |-> kept]
        /\ UNCHANGED <<now, nextObj, pc, wbuf, call, detected, returned, marked, deleted, adminOps>>
        /\ UNCHANGED <<trackVars, bufVars, agentVars, contactVars>>

\* AlertManager(): self.alerts = [] and load_alerts(). With no file the else
\* branch (66-68) writes the empty collection, and a failure of that write
\* leaves __init__. last.ret records whether the file could be opened.
Construct(can_open, io) ==
    LET exists == disk.state # "absent"
        loaded == try_load(disk, can_open)
    IN  /\ exists => io = "ok"
        /\ ~exists => can_open
        /\ mem' = [mem EXCEPT !["agent"] = IF exists THEN loaded.alerts ELSE <<>>]
        /\ disk' = IF exists THEN disk ELSE save_alerts(<<>>, disk, io)
        /\ last' = [op |-> "construct", id |-> -1, fb |-> "", ret |-> can_open,
                    raised |-> IF exists THEN loaded.raised ELSE io # "ok",
                    kept |-> {}]
        /\ UNCHANGED <<files, now, nextObj, pc, wbuf, call,
                       detected, returned, marked, deleted, adminOps>>
        /\ UNCHANGED <<trackVars, bufVars, agentVars, contactVars>>

\* an AlertManager exists: the latest AlertManager() did not raise
Constructed == last.op # "none" /\ ~(last.op = "construct" /\ last.raised)

\* get_alert_by_id(alert_id)
GetAlertById(alert_id) ==
    /\ last' = [op |-> "get", id |-> alert_id, fb |-> "",
                ret |-> get_alert_by_id(mem["agent"], alert_id), raised |-> FALSE,
                kept |-> {}]
    /\ UNCHANGED <<mem, disk, files, now, nextObj, pc, wbuf, call,
                   detected, returned, marked, deleted, adminOps>>
    /\ UNCHANGED <<trackVars, bufVars, agentVars, contactVars>>

\* get_all_alerts()
GetAllAlerts ==
    /\ last' = [op |-> "getAll", id |-> -1, fb |-> "",
                ret |-> get_all_alerts(mem["agent"]), raised |-> FALSE, kept |-> {}]
    /\ UNCHANGED <<mem, disk, files, now, nextObj, pc, wbuf, call,
                   detected, returned, marked, deleted, adminOps>>
    /\ UNCHANGED <<trackVars, bufVars, agentVars, contactVars>>

(***************************************************************************)
(* Concurrent execution: the two workers share Agent.alert_manager; the     *)
(* review interface runs in its own process on the same alerts.json.        *)
(* save_alerts takes three steps: open (truncate), json.dump into the file  *)
(* object's buffer, and the close that writes the buffer out.               *)
(***************************************************************************)
\* One iteration of a worker loop with a positive detection, up to and
\* including self.alerts.append: read_frame appended the frame, so the video
\* buffer is not empty and save_alert_video returns a path; save_alert_audio
\* returns None when the audio buffer is empty.
WorkerDetect(t, id, hasAudio) ==
    LET vp == video_path_for(t, now)
        ap == IF hasAudio THEN audio_path_for(t, now) ELSE None
        alert == Alert(nextObj, id, now, alert_type_of(t), description_of(t), vp, ap)
    IN  /\ pc[t] = "loop"
        /\ Cardinality(detected) < MaxDetections
        /\ mem' = [mem EXCEPT !["agent"] = add_alert_append(mem["agent"], alert)]
        /\ files' = files \cup ({vp, ap} \ {None})
        /\ nextObj' = nextObj + 1
        /\ detected' = detected \cup {nextObj}
        /\ call' = [call EXCEPT ![t] = [op |-> "add", obj |-> nextObj]]
        /\ pc' = [pc EXCEPT ![t] = "save_open"]
        /\ UNCHANGED <<disk, now, wbuf, last, returned, marked, deleted, adminOps>>
        /\ UNCHANGED <<trackVars, bufVars, agentVars, contactVars>>

\* An AlertState handler up to its save_alerts: AlertManager() loads the file,
\* then mark_as_false_positive or delete_alert changes the loaded list. With an
\* unknown id nothing is written and the handler is over.
AdminCall(op, alert_id, feedback) ==
    LET loaded == load_alerts(disk)
        hit == get_alert_by_id(loaded, alert_id)
        alerts == IF op = "mark" THEN mark_as_false_positive(loaded, alert_id, feedback)
                  ELSE delete_alert_pop(loaded, alert_id)
    IN  /\ pc["admin"] = "idle"
        /\ adminOps < MaxAdminOps
        /\ adminOps' = adminOps + 1
        /\ mem' = [mem EXCEPT !["admin"] = alerts]
        /\ IF hit = {}
           THEN /\ UNCHANGED <<pc, call, files>>
           ELSE /\ pc' = [pc EXCEPT !["admin"] = "save_open"]
                /\ call' = [call EXCEPT !["admin"] =
                               [op |-> op, obj |-> (CHOOSE a \in hit : TRUE).obj]]
                /\ IF op = "delete"
                   THEN \E removed \in SUBSET delete_alert_files(loaded, alert_id, files) :
                           files' = files \ removed
                   ELSE UNCHANGED files
        /\ UNCHANGED <<disk, now, nextObj, wbuf, last, detected, returned, marked, deleted>>
        /\ UNCHANGED <<trackVars, bufVars, agentVars, contactVars>>

\* save_alerts, line 72: open(ALERTS_DB_PATH, 'w'). When it raises, the worker's
\* except clause (agent.py 180-182, 227-229) or the event handler ends the call.
SaveOpen(t, ok) ==
    /\ pc[t] = "save_open"
    /\ IF ok
       THEN /\ disk' = open_w(disk)
            /\ pc' = [pc EXCEPT ![t] = "save_dump"]
            /\ UNCHANGED call
       ELSE /\ pc' = [pc EXCEPT ![t] = rest_of(t)]
            /\ call' = [call EXCEPT ![t] = NoCall]
            /\ UNCHANGED disk
    /\ UNCHANGED <<mem, files, now, nextObj, wbuf, last,
                   detected, returned, marked, deleted, adminOps>>
    /\ UNCHANGED <<trackVars, bufVars, agentVars, contactVars>>

\* save_alerts, line 73: json.dump(self.alerts, f, indent=2) serialises the list
\* as it is now into the file object's buffer
SaveDump(t) ==
    /\ pc[t] = "save_dump"
    /\ wbuf' = [wbuf EXCEPT ![t] = json_dump(mem[manager_of(t)])]
    /\ pc' = [pc EXCEPT ![t] = "save_close"]
    /\ UNCHANGED <<mem, disk, files, now, nextObj, call, last,
                   detected, returned, marked, deleted, adminOps>>
    /\ UNCHANGED <<trackVars, bufVars, agentVars, contactVars>>

\* the end of the with block: the buffer is written and the call returns; when
\* the write raises nothing reaches the file and the call ends as in SaveOpen
SaveClose(t, ok) ==
    /\ pc[t] = "save_close"
    /\ IF ok
       THEN /\ disk' \in close_flush(disk, wbuf[t])
            /\ returned' = IF call[t].op = "add" THEN returned \cup {call[t].obj} ELSE returned
            /\ marked' = IF call[t].op = "mark" THEN marked \cup {call[t].obj} ELSE marked
            /\ deleted' = IF call[t].op = "delete" THEN deleted \cup {call[t].obj} ELSE deleted
       ELSE UNCHANGED <<disk, returned, marked, deleted>>
    /\ pc' = [pc EXCEPT ![t] = rest_of(t)]
    /\ call' = [call EXCEPT ![t] = NoCall]
    /\ wbuf' = [wbuf EXCEPT ![t] = json_dump(<<>>)]
    /\ UNCHANGED <<mem, files, now, nextObj, last, detected, adminOps>>
    /\ UNCHANGED <<trackVars, bufVars, agentVars, contactVars>>

\* no call is in progress
Quiescent == \A t \in Threads : pc[t] = rest_of(t)

(***************************************************************************)
(* YOLOv8ObjectDetector.update_object_tracking.                             *)
(***************************************************************************)
\* time_missing > 3
GracePeriod == 3

watched_classes == {"chair", "laptop", "cell phone", "keyboard", "mouse", "cup", "bottle"}

\* the boxes the detector may report in a frame: (class, x1, y1, x2, y2)
Boxes ==
    { [cls |-> "laptop", x1 |-> 100, y1 |-> 100, x2 |-> 300, y2 |-> 200],
      [cls |-> "cup",    x1 |-> 400, y1 |-> 300, x2 |-> 440, y2 |-> 360],
      [cls |-> "cup",    x1 |-> 500, y1 |-> 300, x2 |-> 540, y2 |-> 360],
      [cls |-> "person", x1 |-> 200, y1 |-> 50,  x2 |-> 320, y2 |-> 450] }

\* line 81: f"{class_name}_{int(cx/20)}_{int(cy/20)}_{int(size/500)}" with
\* cx = (x1 + x2) / 2, cy = (y1 + y2) / 2, size = (x2 - x1) * (y2 - y1)
obj_id(b) ==
    << b.cls, (b.x1 + b.x2) \div 40, (b.y1 + b.y2) \div 40,
       ((b.x2 - b.x1) * (b.y2 - b.y1)) \div 500 >>

\* the dict built without the test of line 74
current_objects_unfiltered(dets, t) ==
    LET ids == {obj_id(b) : b \in dets}
    IN  [i \in ids |->
            LET b == CHOOSE x \in dets : obj_id(x) = i
            IN  [class |-> b.cls, last_seen |-> t, box |-> b]]

\* lines 67-89: the dict built from this frame's detections at time t
current_objects(dets, t) ==
    LET watched == {b \in dets : b.cls \in watched_classes}
        ids == {obj_id(b) : b \in watched}
    IN  [i \in ids |->
            LET b == CHOOSE x \in watched : obj_id(x) = i
            IN  [class |-> b.cls, last_seen |-> t, box |-> b]]

\* the test of line 103 written time_missing >= 3
missing_in_at_grace(tracked, current, t) ==
    { tracked[i] : i \in {j \in DOMAIN tracked :
                             j \notin DOMAIN current /\ t - tracked[j].last_seen >= GracePeriod} }

\* lines 96-104: the tracked objects absent from this frame for which
\* time.time() - last_seen > 3
missing_in(tracked, current, t) ==
    { tracked[i] : i \in {j \in DOMAIN tracked :
                             j \notin DOMAIN current /\ t - tracked[j].last_seen > GracePeriod} }

\* update_object_tracking that keeps the last_seen of an object tracked before
update_object_tracking_keeps_seen(tracked, dets, t) ==
    LET current == current_objects(dets, t)
        kept == [i \in DOMAIN current |->
                    IF i \in DOMAIN tracked THEN tracked[i] ELSE current[i]]
    IN  IF DOMAIN tracked = {}
        THEN [tracked |-> current, missing |-> {},
              detected |-> FALSE, names |-> {}]
        ELSE LET missing == missing_in(tracked, current, t)
             IN  [tracked |-> kept, missing |-> missing,
                  detected |-> missing # {},
                  names |-> {m.class : m \in missing}]

\* update_object_tracking whose first-frame branch returns without line 93
update_object_tracking_unseeded(tracked, dets, t) ==
    LET current == current_objects(dets, t)
    IN  IF DOMAIN tracked = {}
        THEN [tracked |-> tracked, missing |-> {},
              detected |-> FALSE, names |-> {}]
        ELSE LET missing == missing_in(tracked, current, t)
             IN  [tracked |-> current, missing |-> missing,
                  detected |-> missing # {},
                  names |-> {m.class : m \in missing}]

\* update_object_tracking at time t: the new tracked_objects, missing_objects and
\* the returned pair (the description is kept as the set of names it joins)
update_object_tracking(tracked, dets, t) ==
    LET current == current_objects(dets, t)
    IN  IF DOMAIN tracked = {}
        THEN [tracked |-> current, missing |-> {},
              detected |-> FALSE, names |-> {}]
        ELSE LET missing == missing_in(tracked, current, t)
             IN  [tracked |-> current, missing |-> missing,
                  detected |-> missing # {},
                  names |-> {m.class : m \in missing}]

\* the derived ids of the watched boxes
WatchedIds == {obj_id(b) : b \in {x \in Boxes : x.cls \in watched_classes}}

InitTracker ==
    /\ tracked_objects = << >>
    /\ missing_objects = {}
    /\ tnow = 0
    /\ tresult = [detected |-> FALSE, names |-> {}]
    /\ tdets = {}
    /\ seenAt = [i \in WatchedIds |-> -1]
    /\ phase = [i \in WatchedIds |-> "unseen"]
    /\ streak = [i \in WatchedIds |-> 0]

\* One call of update_object_tracking, gap seconds after the previous one, on a
\* frame in which the detector reports dets. seenAt, phase and streak record the
\* history the code does not keep: when each id was really last detected, how
\* many consecutive 1s-apart ticks detected it, and whether this tick is within
\* the grace period since then ("grace"), the first one beyond it ("due") or a
\* later one ("past").
TrackerTick(dets, gap) ==
    LET t == tnow + gap
        r == update_object_tracking(tracked_objects, dets, t)
        cur == DOMAIN current_objects(dets, t)
    IN  /\ t <= MaxTrackTime
        /\ tnow' = t
        /\ tracked_objects' = r.tracked
        /\ missing_objects' = r.missing
        /\ tresult' = [detected |-> r.detected, names |-> r.names]
        /\ tdets' = dets
        /\ seenAt' = [i \in WatchedIds |-> IF i \in cur THEN t ELSE seenAt[i]]
        /\ streak' = [i \in WatchedIds |->
                        IF i \notin cur THEN streak[i]
                        ELSE IF phase[i] = "present" /\ gap = 1 /\ streak[i] >= 1 THEN 2
                        ELSE 1]
        /\ phase' = [i \in WatchedIds |->
                        IF i \in cur THEN "present"
                        ELSE IF seenAt[i] = -1 THEN "unseen"
                        ELSE IF t - seenAt[i] <= GracePeriod THEN "grace"
                        ELSE IF phase[i] \in {"present", "grace"} THEN "due"
                        ELSE "past"]
        /\ UNCHANGED <<storeVars, bufVars, agentVars, contactVars>>

(***************************************************************************)
(* Rolling evidence buffers: VideoProcessor.frame_buffer and                *)
(* AudioProcessor.audio_buffer. A frame is named by the number of the read  *)
(* that delivered it, a sample by its position in the stream.               *)
(***************************************************************************)
\* the capacities ALERT_VIDEO_DURATION * fps and
\* ALERT_AUDIO_DURATION * sample_rate * channels may take in the model
Capacities == 1 .. MaxCapacity

\* the threads that call read_frame on source 0: the visualization loop of
\* Agent.start and the object detection worker
Readers == {"main", "object"}

\* read_frame with self.frame_buffer.pop() in place of pop(0)
evict_newest(buffer, max) ==
    IF Len(buffer) > max THEN SubSeq(buffer, 1, Len(buffer) - 1) ELSE buffer

\* read_frame, lines 53-54: if len(self.frame_buffer) > self.max_buffer_size:
\* self.frame_buffer.pop(0)
evict_oldest(buffer, max) ==
    IF Len(buffer) > max THEN Tail(buffer) ELSE buffer

\* read_frame, lines 52-54, run without interleaving
push_frame(buffer, frame, max) == evict_oldest(Append(buffer, frame), max)

\* Python's buffer[-n:] (n >= 0): the last n items; the whole list when n is 0
\* or exceeds its length
last_items(buffer, n) ==
    IF n = 0 \/ n >= Len(buffer) THEN buffer
    ELSE SubSeq(buffer, Len(buffer) - n + 1, Len(buffer))

\* audio_callback, lines 60-64: extend, then keep the last max_buffer_size
extend_audio(buffer, chunk, max) ==
    LET b == buffer \o chunk
    IN  IF Len(b) > max THEN last_items(b, max) ELSE b

NoBufferCall == [op |-> "none", ret |-> None, raised |-> FALSE]

\* the buffers of freshly built processors
EmptyBuffers ==
    /\ frame_buffer = <<>>
    /\ reads = 0
    /\ rpc = [t \in Readers |-> "idle"]
    /\ worker_frame = 0
    /\ audio_buffer = <<>>
    /\ samples = 0
    /\ xlast = NoBufferCall

InitBuffers ==
    /\ max_buffer_size \in Capacities
    /\ audio_max_buffer_size \in Capacities
    /\ EmptyBuffers

\* the buffers where no capture is running
IdleBuffers ==
    /\ max_buffer_size = MaxCapacity
    /\ audio_max_buffer_size = MaxCapacity
    /\ EmptyBuffers

\* read_frame() by the only thread that reads source 0, run to completion:
\* cap.read() delivers a frame (ret) or not
ReadFrame(ret) ==
    /\ \A t \in Readers : rpc[t] = "idle"
    /\ IF ret
       THEN /\ reads < MaxFrames
            /\ reads' = reads + 1
            /\ frame_buffer' = push_frame(frame_buffer, reads + 1, max_buffer_size)
            /\ xlast' = [op |-> "read", ret |-> reads + 1, raised |-> FALSE]
       ELSE /\ xlast' = [op |-> "read", ret |-> None, raised |-> FALSE]
            /\ UNCHANGED <<reads, frame_buffer>>
    /\ UNCHANGED <<max_buffer_size, rpc, worker_frame, audio_max_buffer_size, audio_buffer,
                   samples>>
    /\ UNCHANGED <<storeVars, trackVars, agentVars, contactVars>>

\* read_frame() by thread t up to line 52: cap.read() delivered a frame and
\* self.frame_buffer.append(frame.copy()) ran
ReadAppend(t) ==
    /\ rpc[t] = "idle"
    /\ reads < MaxFrames
    /\ reads' = reads + 1
    /\ frame_buffer' = Append(frame_buffer, reads + 1)
    /\ rpc' = [rpc EXCEPT ![t] = "appended"]
    /\ worker_frame' = IF t = "object" THEN reads + 1 ELSE worker_frame
    /\ UNCHANGED <<max_buffer_size, audio_max_buffer_size, audio_buffer, samples, xlast>>
    /\ UNCHANGED <<storeVars, trackVars, agentVars, contactVars>>

\* read_frame() by thread t, lines 53-56: the length test, the pop and the return
ReadEvict(t) ==
    /\ rpc[t] = "appended"
    /\ frame_buffer' = evict_oldest(frame_buffer, max_buffer_size)
    /\ rpc' = [rpc EXCEPT ![t] = "idle"]
    /\ xlast' = [op |-> "read", ret |-> t, raised |-> FALSE]
    /\ UNCHANGED <<max_buffer_size, reads, worker_frame, audio_max_buffer_size,
                   audio_buffer, samples>>
    /\ UNCHANGED <<storeVars, trackVars, agentVars, contactVars>>

\* the newest slot left as read_frame filled it
overlay_write_skipped(buffer, vis_frame) == buffer

\* agent.py 175 / 222: self.video_processors[camera_index].frame_buffer[-1] = vis_frame
overlay_write(buffer, vis_frame) == [buffer EXCEPT ![Len(buffer)] = vis_frame]

\* draw_detections (118-150) / draw_poses (200-230): a copy of the frame; drawn:
\* there was something to draw on it. A drawn copy of frame k is named -k.
vis_frame_of(k, drawn) == IF drawn THEN 0 - k ELSE k

\* The end of a pass of the object worker with visualization on (218-222): the
\* frame its read_frame returned is annotated and written over the newest slot
\* of the buffer, whatever that slot holds by then.
Overlay(drawn) ==
    /\ show_visualization
    /\ rpc["object"] = "idle"
    /\ worker_frame # 0
    /\ frame_buffer # <<>>
    /\ frame_buffer' = overlay_write(frame_buffer, vis_frame_of(worker_frame, drawn))
    /\ worker_frame' = 0
    /\ xlast' = [op |-> "overlay", ret |-> worker_frame, raised |-> FALSE]
    /\ UNCHANGED <<max_buffer_size, reads, rpc, audio_max_buffer_size, audio_buffer, samples>>
    /\ UNCHANGED <<storeVars, trackVars, agentVars, contactVars>>

\* audio_callback(indata, ...) with n samples in indata
AudioCallback(n) ==
    LET chunk == [i \in 1 .. n |-> samples + i]
    IN  /\ samples + n <= MaxSamples
        /\ samples' = samples + n
        /\ audio_buffer' = extend_audio(audio_buffer, chunk, audio_max_buffer_size)
        /\ xlast' = [op |-> "audio", ret |-> n, raised |-> FALSE]
        /\ UNCHANGED <<max_buffer_size, frame_buffer, reads, rpc, worker_frame,
                       audio_max_buffer_size>>
        /\ UNCHANGED <<storeVars, trackVars, agentVars, contactVars>>

\* save_alert_video that pops each frame as it writes it
SaveAlertVideoDraining(ok) ==
    /\ \A t \in Readers : rpc[t] = "idle"
    /\ frame_buffer # <<>> \/ ok
    /\ frame_buffer' = <<>>
    /\ IF frame_buffer = <<>>
       THEN /\ xlast' = [op |-> "save_video", ret |-> None, raised |-> FALSE]
            /\ UNCHANGED files
       ELSE /\ xlast' = [op |-> "save_video",
                         ret |-> IF ok THEN video_path_for("object", now) ELSE None,
                         raised |-> ~ok]
            /\ files' = IF ok THEN files \cup {video_path_for("object", now)} ELSE files
    /\ UNCHANGED <<max_buffer_size, reads, rpc, worker_frame, audio_max_buffer_size,
                   audio_buffer, samples>>
    /\ UNCHANGED <<mem, disk, now, nextObj, pc, wbuf, call, last,
                   detected, returned, marked, deleted, adminOps>>
    /\ UNCHANGED <<trackVars, agentVars, contactVars>>

\* save_alert_video(f"object_{int(time.time())}"): None when the buffer is empty;
\* else the frames are written to the clip and its path returned, unless the
\* writer raises (ok is FALSE)
SaveAlertVideo(ok) ==
    /\ \A t \in Readers : rpc[t] = "idle"
    /\ frame_buffer # <<>> \/ ok
    /\ IF frame_buffer = <<>>
       THEN /\ xlast' = [op |-> "save_video", ret |-> None, raised |-> FALSE]
            /\ UNCHANGED files
       ELSE /\ xlast' = [op |-> "save_video",
                         ret |-> IF ok THEN video_path_for("object", now) ELSE None,
                         raised |-> ~ok]
            /\ files' = IF ok THEN files \cup {video_path_for("object", now)} ELSE files
    /\ UNCHANGED bufVarsButLast
    /\ UNCHANGED <<mem, disk, now, nextObj, pc, wbuf, call, last,
                   detected, returned, marked, deleted, adminOps>>
    /\ UNCHANGED <<trackVars, agentVars, contactVars>>

\* save_alert_audio(f"object_{int(time.time())}"): None when the buffer is empty;
\* else np.array copies the samples, sf.write writes them and the path is
\* returned, unless sf.write raises (ok is FALSE)
SaveAlertAudio(ok) ==
    /\ audio_buffer # <<>> \/ ok
    /\ IF audio_buffer = <<>>
       THEN /\ xlast' = [op |-> "save_audio", ret |-> None, raised |-> FALSE]
            /\ UNCHANGED files
       ELSE /\ xlast' = [op |-> "save_audio",
                         ret |-> IF ok THEN audio_path_for("object", now) ELSE None,
                         raised |-> ~ok]
            /\ files' = IF ok THEN files \cup {audio_path_for("object", now)} ELSE files
    /\ UNCHANGED bufVarsButLast
    /\ UNCHANGED <<mem, disk, now, nextObj, pc, wbuf, call, last,
                   detected, returned, marked, deleted, adminOps>>
    /\ UNCHANGED <<trackVars, agentVars, contactVars>>

(***************************************************************************)
(* Agent: construction, start() and stop(), the worker loops.               *)
(***************************************************************************)
\* indices of self.video_processors
Sources == 0 .. (video_sources - 1)

\* the video processor each worker reads (agent.py 138, 187)
camera_index(t) == IF t = "pose" THEN 2 ELSE 0

\* Agent.__init__, lines 44-51: self.safe_mode after the try block. The
\* constructors of YOLOv7PoseDetector and YOLOv8ObjectDetector only assign
\* fields (model = None); the model is loaded by the first detect call, in the
\* worker. So nothing raises here whatever can be loaded, and the except branch
\* that sets safe_mode is not taken.
init_safe_mode(safe_mode_arg, can_load) == safe_mode_arg

\* VideoProcessor.release: cap.release() and self.cap = None
release(cap) == "none"

\* read_frame that calls cap.read() on whatever self.cap is
read_frame_cap_no_reopen(cap, opens) == cap

\* read_frame, lines 40-41: a processor without a capture calls self.start(),
\* which assigns a new VideoCapture (35) and raises ValueError when it did not
\* open (36-37)
read_frame_cap(cap, opens) ==
    IF cap = "none" THEN (IF opens THEN "open" ELSE "unopened") ELSE cap

\* Agent.stop, lines 242-243: every video processor released
stop_captures(c) == [i \in DOMAIN c |-> release(c[i])]

\* start() with the guard of line 65 left out
start_never_noop(is_running) == FALSE

\* start, lines 65-67: the call returns at once when the agent is running
start_is_noop(is_running) == is_running

\* start() returning on a capture failure without calling self.stop()
abort_start_returns(c, rec, str) ==
    [running |-> TRUE, caps |-> c, recording |-> rec, stream |-> str]

\* start, lines 83-88: a capture failed to open; self.stop() and return
abort_start(c, rec, str) ==
    [running |-> FALSE, caps |-> stop_captures(c), recording |-> FALSE, stream |-> FALSE]

\* stop, lines 249-251: cv2.destroyWindow for each name of self.windows, in
\* order. The list is never cleared and may hold a name twice, so a name may
\* have no window any more; strict: this OpenCV build raises cv2.error for
\* such a name (others ignore it). The loop ends at the first exception.
RECURSIVE destroy_windows(_, _, _)
destroy_windows(names, open, strict) ==
    IF names = <<>> THEN [open |-> open, raised |-> FALSE]
    ELSE IF Head(names) \in open
         THEN destroy_windows(Tail(names), open \ {Head(names)}, strict)
    ELSE IF strict THEN [open |-> open, raised |-> TRUE]
    ELSE destroy_windows(Tail(names), open, strict)

\* a worker loop written as "while True"
loop_condition_always(is_running) == TRUE

\* the worker loops, lines 140 and 189: while self.running
loop_condition(is_running) == is_running

\* a worker whose try statement encloses its loop: an exception ends the thread
after_exception_unwinds(thread) == [thread EXCEPT !.alive = FALSE]

\* the worker loops, lines 180-182 and 227-229: the except clause is inside the
\* loop, so the thread goes on to the next pass
after_exception(thread) == thread

\* a worker that drops a detection when an export returned None
alert_needs_evidence(video_path, audio_path) == video_path # None /\ audio_path # None

\* the worker loops, lines 158-170 and 204-216: the paths the exports returned
\* go into Alert(...) untested, so the alert is built and added whatever they are
alert_is_built(video_path, audio_path) == TRUE

\* the steps of a worker pass at which the environment may make a call raise
Faults == {"none", "read", "detect", "export", "add", "overlay"}

\* the outcomes of a worker pass that are an exception caught at 180 / 227
Caught == {"index_error", "read_raised", "load_failed", "detect_raised",
           "export_raised", "add_raised", "overlay_raised"}

\* what a worker pass sleeps before the next one: time.sleep(1) in the except
\* clause, time.sleep(0.05) / time.sleep(0.1) at the end of a complete pass,
\* and nothing on the "continue" of lines 144-145 / 193-194 or on leaving
sleep_after(outcome) ==
    IF outcome \in Caught THEN "backoff"
    ELSE IF outcome \in {"alert", "clear"} THEN "brief"
    ELSE "none"

\* exports: what save_alert_video and save_alert_audio returned in a worker pass
NoAgentStep == [op |-> "none", outcome |-> "none", at |-> -1, slept |-> "none",
                raised |-> FALSE, exports |-> <<>>]

\* the agent as Agent.__init__ leaves it
InitAgent ==
    /\ video_sources \in 1 .. MaxSources
    /\ show_visualization \in BOOLEAN
    /\ loadable \in SUBSET Workers
    /\ \E safe_mode_arg \in BOOLEAN :
          safe_mode = init_safe_mode(safe_mode_arg, loadable = Workers)
    /\ running = FALSE
    /\ caps = [i \in Sources |-> "none"]
    /\ windows = <<>>
    /\ threads = <<>>
    /\ recording = FALSE
    /\ stream = FALSE
    /\ starts = 0
    /\ open_windows = {}
    /\ processor_thread = "none"
    /\ reading = {}
    /\ alast = NoAgentStep

\* an agent that is never started
IdleAgent ==
    /\ video_sources = 1
    /\ show_visualization = FALSE
    /\ loadable = Workers
    /\ safe_mode = FALSE
    /\ running = FALSE
    /\ caps = [i \in Sources |-> "none"]
    /\ windows = <<>>
    /\ threads = <<>>
    /\ recording = FALSE
    /\ stream = FALSE
    /\ starts = 0
    /\ open_windows = {}
    /\ processor_thread = "none"
    /\ reading = {}
    /\ alast = NoAgentStep

\* start(), lines 63-110, up to the main loop. failing: the sources whose
\* VideoCapture does not open; audio_ok: sd.InputStream can be opened; strict:
\* see destroy_windows.
Start(failing, audio_ok, strict) ==
    LET first_bad == IF failing = {} THEN video_sources
                     ELSE CHOOSE i \in failing : \A j \in failing : i <= j
        \* lines 76-82: the processors before the failing one are open and have
        \* a window; the failing one holds a VideoCapture that is not opened
        tried == [i \in Sources |->
                    IF i < first_bad THEN "open"
                    ELSE IF i = first_bad THEN "unopened" ELSE caps[i]]
        named == IF show_visualization
                 THEN windows \o [k \in 1 .. first_bad |-> k - 1]
                 ELSE windows
        created == IF show_visualization
                   THEN open_windows \cup (0 .. (first_bad - 1))
                   ELSE open_windows
    IN  IF start_is_noop(running)
        THEN /\ alast' = [op |-> "start", outcome |-> "noop", at |-> -1,
                          slept |-> "none", raised |-> FALSE, exports |-> <<>>]
             /\ UNCHANGED <<video_sources, show_visualization, safe_mode, loadable,
                            running, caps, windows, threads, recording, stream, starts,
                            open_windows, processor_thread, reading>>
             /\ UNCHANGED <<storeVars, trackVars, bufVars, contactVars>>
        ELSE /\ starts < MaxStarts
             /\ starts' = starts + 1
             /\ windows' = named
             /\ IF first_bad < video_sources
                THEN LET a == abort_start(tried, recording, stream)
                         d == IF show_visualization
                              THEN destroy_windows(named, created, strict)
                              ELSE [open |-> created, raised |-> FALSE, exports |-> <<>>]
                     IN  /\ running' = a.running
                         /\ caps' = a.caps
                         /\ recording' = a.recording
                         /\ stream' = a.stream
                         /\ open_windows' = d.open
                         /\ UNCHANGED <<threads, processor_thread>>
                         /\ alast' = [op |-> "start", outcome |-> "failed", at |-> first_bad,
                                      slept |-> "none", raised |-> d.raised, exports |-> <<>>]
                ELSE /\ running' = TRUE
                     /\ caps' = tried
                     /\ open_windows' = created
                     \* lines 91-96: start_recording sets the flag, opens the
                     \* stream, and starts the processing thread if there was none
                     /\ IF safe_mode \/ recording
                        THEN UNCHANGED <<recording, stream, processor_thread>>
                        ELSE /\ recording' = TRUE
                             /\ stream' = audio_ok
                             /\ processor_thread' =
                                   IF audio_ok /\ processor_thread = "none"
                                   THEN "loading" ELSE processor_thread
                     \* lines 99-108
                     /\ threads' = IF safe_mode THEN threads
                                   ELSE threads \o << [target |-> "pose", alive |-> TRUE],
                                                      [target |-> "object", alive |-> TRUE] >>
                     /\ alast' = [op |-> "start", outcome |-> "started", at |-> -1,
                                  slept |-> "none", raised |-> FALSE, exports |-> <<>>]
             /\ UNCHANGED <<video_sources, show_visualization, safe_mode, loadable, reading>>
             /\ UNCHANGED <<storeVars, trackVars, bufVars, contactVars>>

\* stop(), lines 231-253: called by the main loop on the key q, by the
\* KeyboardInterrupt handlers of start, and by run_agent.py in its finally
\* clause. Each join waits at most 2 seconds: the workers in joined have left
\* their loop by then, the others are still alive. strict: see destroy_windows.
\* A worker that passed its loop test and has not read yet when the flag is
\* cleared is one of the others: had it read in time, its pass came before
\* the call.
Stop(joined, strict) ==
    LET d == IF show_visualization
             THEN destroy_windows(windows, open_windows, strict)
             ELSE [open |-> open_windows, raised |-> FALSE, exports |-> <<>>]
    IN  /\ joined \subseteq {i \in DOMAIN threads : threads[i].alive} \ reading
        /\ running' = FALSE
        /\ threads' = [i \in DOMAIN threads |->
                         IF i \in joined THEN [threads[i] EXCEPT !.alive = FALSE]
                         ELSE threads[i]]
        /\ caps' = stop_captures(caps)
        /\ recording' = FALSE
        /\ stream' = FALSE
        /\ open_windows' = d.open
        /\ alast' = [op |-> "stop", outcome |-> "stopped", at |-> -1, slept |-> "none",
                     raised |-> d.raised, exports |-> <<>>]
        /\ UNCHANGED <<video_sources, show_visualization, safe_mode, loadable, windows,
                       starts, processor_thread, reading>>
        /\ UNCHANGED <<storeVars, trackVars, bufVars, contactVars>>

\* One pass of worker i through its loop (135-182, 184-229). The worker leaves
\* when running is False. Else it reads its video processor (IndexError when
\* there is none with its index; frame: cap.read() delivered one) and calls its
\* detector, whose first call loads the model; positive: the detector reports a
\* detection, and then the evidence is exported under the key
\* "<pipeline>_<int(time.time())>", the Alert is built (drawing id) and added
\* (io fails when fault is "add"); hasAudio: the audio buffer is not empty.
\* With visualization the overlay is drawn last. fault: the step that raises;
\* any exception is caught, printed and followed by sleep(1). read_frame opens
\* the capture first when the processor has none (read_frame_cap); what it does
\* to the frame buffer is ReadFrame.
WorkerIterate(i, frame, positive, hasAudio, id, fault) ==
    LET t == threads[i].target
        \* lines 140 / 189, unless the worker stands past them already
        entered == i \in reading \/ loop_condition(running)
        calls_read == entered /\ camera_index(t) \in Sources
        detecting == /\ entered
                     /\ camera_index(t) \in Sources
                     /\ fault # "read"
                     /\ frame
                     /\ t \in loadable
                     /\ fault # "detect"
        exported == detecting /\ positive /\ fault # "export"
        outcome == IF ~entered THEN "exit"
                   ELSE IF camera_index(t) \notin Sources THEN "index_error"
                   ELSE IF fault = "read" THEN "read_raised"
                   ELSE IF ~frame THEN "no_frame"
                   ELSE IF t \notin loadable THEN "load_failed"
                   ELSE IF fault = "detect" THEN "detect_raised"
                   ELSE IF positive /\ fault = "export" THEN "export_raised"
                   ELSE IF positive /\ fault = "add" THEN "add_raised"
                   ELSE IF show_visualization /\ fault = "overlay" THEN "overlay_raised"
                   ELSE IF positive THEN "alert"
                   ELSE "clear"
        vp == video_path_for(t, now)
        ap == IF hasAudio THEN audio_path_for(t, now) ELSE None
        alert == Alert(nextObj, id, now, alert_type_of(t), description_of(t), vp, ap)
        alerts == add_alert_append(mem["agent"], alert)
        io == IF fault = "add" THEN "open_fails" ELSE "ok"
    IN  /\ i \in DOMAIN threads
        /\ threads[i].alive
        /\ threads' = IF outcome = "exit"
                      THEN [threads EXCEPT ![i].alive = FALSE]
                      ELSE IF outcome \in Caught
                      THEN [threads EXCEPT ![i] = after_exception(threads[i])]
                      ELSE threads
        /\ alast' = [op |-> "iterate", outcome |-> outcome, at |-> i,
                     slept |-> sleep_after(outcome), raised |-> FALSE,
                     exports |-> IF exported THEN <<vp, ap>> ELSE <<>>]
        /\ IF exported /\ alert_is_built(vp, ap)
           THEN /\ nextObj < MaxEvidenced
                /\ files' = files \cup ({vp, ap} \ {None})
                /\ mem' = [mem EXCEPT !["agent"] = alerts]
                /\ disk' = save_alerts(alerts, disk, io)
                /\ nextObj' = nextObj + 1
                /\ detected' = detected \cup {nextObj}
                /\ last' = [op |-> "add", id |-> id, fb |-> "", ret |-> id,
                            raised |-> io # "ok", kept |-> {}]
                /\ UNCHANGED <<now, pc, wbuf, call, returned, marked, deleted, adminOps>>
           ELSE UNCHANGED storeVars
        /\ caps' = IF calls_read
                   THEN [caps EXCEPT ![camera_index(t)] = read_frame_cap(@, fault # "read")]
                   ELSE caps
        /\ reading' = reading \ {i}
        /\ UNCHANGED <<video_sources, show_visualization, safe_mode, loadable, running,
                       windows, recording, stream, starts, open_windows,
                       processor_thread>>
        /\ UNCHANGED <<trackVars, bufVars, contactVars>>

\* A worker evaluates "while self.running" (140 / 189) to True and is then
\* overtaken by other threads before its call of read_frame; WorkerIterate is
\* the rest of its pass.
WorkerTest(i) ==
    /\ i \in DOMAIN threads
    /\ threads[i].alive
    /\ i \notin reading
    /\ loop_condition(running)
    /\ reading' = reading \cup {i}
    /\ alast' = [op |-> "test", outcome |-> "entered", at |-> i, slept |-> "none",
                 raised |-> FALSE, exports |-> <<>>]
    /\ UNCHANGED <<video_sources, show_visualization, safe_mode, loadable, running,
                   caps, windows, threads, recording, stream, starts, open_windows,
                   processor_thread>>
    /\ UNCHANGED <<storeVars, trackVars, bufVars, contactVars>>

\* One pass of the main loop of start() (112-133) while the agent runs: with
\* visualization it calls read_frame on every video processor and shows the
\* frames, then polls the keyboard (the key q is Stop); without visualization
\* it only sleeps a second. What read_frame does to the frame buffer is
\* ReadFrame.
MainLoop ==
    /\ running
    /\ alast' = [op |-> "main_loop",
                 outcome |-> IF show_visualization THEN "read" ELSE "sleep",
                 at |-> -1, slept |-> "brief", raised |-> FALSE, exports |-> <<>>]
    /\ caps' = IF show_visualization
               THEN [i \in DOMAIN caps |-> read_frame_cap(caps[i], TRUE)]
               ELSE caps
    /\ UNCHANGED <<video_sources, show_visualization, safe_mode, loadable, running,
                   windows, threads, recording, stream, starts, open_windows,
                   processor_thread, reading>>
    /\ UNCHANGED <<storeVars, trackVars, bufVars, contactVars>>

\* One step of AudioProcessor._process_audio (83-107), the thread that
\* start_recording starts once. Its first step loads the speech model
\* (can_load), outside any try statement; each later step leaves the loop when
\* recording is False, or takes a 5-second chunk and calls
\* _transcribe_and_check, whose result (positive: a word of the lexicon was
\* found) line 103 drops; an exception of the call is swallowed at 105.
ProcessAudio(can_load, positive) ==
    /\ processor_thread \in {"loading", "alive"}
    /\ LET outcome == IF processor_thread = "loading"
                      THEN (IF can_load THEN "loaded" ELSE "load_failed")
                      ELSE IF ~recording THEN "exit"
                      ELSE IF positive THEN "positive" ELSE "negative"
       IN  /\ processor_thread' = IF outcome \in {"load_failed", "exit"} THEN "ended"
                                  ELSE "alive"
           /\ alast' = [op |-> "speech", outcome |-> outcome, at |-> -1,
                        slept |-> "none", raised |-> FALSE, exports |-> <<>>]
    /\ UNCHANGED <<video_sources, show_visualization, safe_mode, loadable, running,
                   caps, windows, threads, recording, stream, starts, open_windows,
                   reading>>
    /\ UNCHANGED <<storeVars, trackVars, bufVars, contactVars>>

(***************************************************************************)
(* The contact heuristic of YOLOv7PoseDetector. A keypoint is <<x, y, c>>   *)
(* with the confidence c in tenths; a person maps the keypoint indices the  *)
(* heuristic reads (shoulders 5 6, wrists 9 10, hips 11 12) to keypoints.   *)
(* Distances are compared by their squares, which orders them as            *)
(* math.sqrt does.                                                          *)
(***************************************************************************)
\* check_inappropriate_contact, line 96: if distance < 30
DistanceThreshold == 30
\* _detect_hand_contact, lines 180 and 195: if dist < 20
ContactThreshold == 20
\* the confidence tests of lines 119, 124, 171, 176: 0.5, in tenths
MinConfidence == 5

\* key_points (115) and body_indices (166)
key_points == <<5, 6, 11, 12>>
\* hand_indices (165)
hand_indices == <<9, 10>>

\* (p1[0] - p2[0])**2 + (p1[1] - p2[1])**2, the argument of math.sqrt
dist2(p1, p2) == (p1[1] - p2[1]) * (p1[1] - p2[1]) + (p1[2] - p2[2]) * (p1[2] - p2[2])

\* float('inf') as a squared distance; real ones are not negative
Inf == -1

\* min(min_distance, dist)
min_dist(min_distance, dist) ==
    IF min_distance = Inf \/ dist < min_distance THEN dist ELSE min_distance

\* _calculate_minimum_distance, lines 117-128: the two nested loops over
\* key_points from the pair (a, b) on, with min_distance so far
RECURSIVE scan_distance(_, _, _, _, _)
scan_distance(person1, person2, a, b, min_distance) ==
    IF a > Len(key_points) THEN min_distance
    ELSE IF person1[key_points[a]][3] < MinConfidence \/ b > Len(key_points)
         THEN scan_distance(person1, person2, a + 1, 1, min_distance)
    ELSE IF person2[key_points[b]][3] < MinConfidence
         THEN scan_distance(person1, person2, a, b + 1, min_distance)
    ELSE scan_distance(person1, person2, a, b + 1,
                       min_dist(min_distance,
                                dist2(person1[key_points[a]], person2[key_points[b]])))

\* _calculate_minimum_distance: the squared minimum, Inf when no pair of
\* confident keypoints exists
calculate_minimum_distance(person1, person2) ==
    scan_distance(person1, person2, 1, 1, Inf)

\* check_inappropriate_contact, line 96: distance < 30
is_close(distance) ==
    distance # Inf /\ distance < DistanceThreshold * DistanceThreshold

\* _are_facing_each_other, lines 135-143: shoulder midpoint minus hip midpoint,
\* here twice that vector (the halves are not taken)
direction(person) ==
    << (person[5][1] + person[6][1]) - (person[11][1] + person[12][1]),
       (person[5][2] + person[6][2]) - (person[11][2] + person[12][2]) >>

\* _are_facing_each_other, lines 146-160: with both norms positive the vectors
\* are normalised and the sign of their dot product decides; the
\* normalisation divides by positive numbers and keeps that sign
are_facing_each_other(person1, person2) ==
    LET d1 == direction(person1)
        d2 == direction(person2)
    IN  IF d1 # <<0, 0>> /\ d2 # <<0, 0>>
        THEN d1[1] * d2[1] + d1[2] * d2[2] < 0
        ELSE FALSE

\* a wrist counted as touching at less than 60 pixels
touches_within_60(person1, person2) ==
    \E h \in 1 .. Len(hand_indices), k \in 1 .. Len(key_points) :
        /\ ~(person1[hand_indices[h]][3] < MinConfidence)
        /\ ~(person2[key_points[k]][3] < MinConfidence)
        /\ dist2(person1[hand_indices[h]], person2[key_points[k]]) < 60 * 60

\* _detect_hand_contact, lines 168-181 (and 184-196 with the persons swapped):
\* the loops return True at the first confident wrist of person1 less than 20
\* pixels from a confident shoulder or hip of person2
touches(person1, person2) ==
    \E h \in 1 .. Len(hand_indices), k \in 1 .. Len(key_points) :
        /\ ~(person1[hand_indices[h]][3] < MinConfidence)
        /\ ~(person2[key_points[k]][3] < MinConfidence)
        /\ dist2(person1[hand_indices[h]], person2[key_points[k]])
              < ContactThreshold * ContactThreshold

\* _detect_hand_contact without its second pair of loops
detect_hand_contact_one_way(person1, person2) == touches(person1, person2)

\* _detect_hand_contact, lines 162-198
detect_hand_contact(person1, person2) ==
    IF touches(person1, person2) THEN TRUE
    ELSE IF touches(person2, person1) THEN TRUE
    ELSE FALSE

\* check_inappropriate_contact, lines 86-105: the loops over i < j from the
\* pair (i, j) on; the first pair that passes the three nested tests returns
RECURSIVE scan_pairs(_, _, _)
scan_pairs(ps, i, j) ==
    IF i > Len(ps) THEN [detected |-> FALSE, description |-> ""]
    ELSE IF j > Len(ps) THEN scan_pairs(ps, i + 1, i + 2)
    ELSE IF is_close(calculate_minimum_distance(ps[i], ps[j]))
         THEN IF are_facing_each_other(ps[i], ps[j])
              THEN IF detect_hand_contact(ps[i], ps[j])
                   THEN [detected |-> TRUE,
                         description |-> "Detected inappropriate physical contact between people"]
                   ELSE scan_pairs(ps, i, j + 1)
              ELSE scan_pairs(ps, i, j + 1)
    ELSE scan_pairs(ps, i, j + 1)

\* check_inappropriate_contact that examines the first two persons only
check_inappropriate_contact_first_two(ps) ==
    IF Len(ps) < 2 THEN [detected |-> FALSE, description |-> ""]
    ELSE IF /\ is_close(calculate_minimum_distance(ps[1], ps[2]))
            /\ are_facing_each_other(ps[1], ps[2])
            /\ detect_hand_contact(ps[1], ps[2])
         THEN [detected |-> TRUE,
               description |-> "Detected inappropriate physical contact between people"]
         ELSE [detected |-> FALSE, description |-> ""]

\* check_inappropriate_contact(poses)
check_inappropriate_contact(ps) ==
    IF Len(ps) < 2 THEN [detected |-> FALSE, description |-> ""]
    ELSE scan_pairs(ps, 1, 2)

\* a person from its six keypoints
person(ls, rs, lw, rw, lh, rh) ==
    (5 :> ls) @@ (6 :> rs) @@ (9 :> lw) @@ (10 :> rw) @@ (11 :> lh) @@ (12 :> rh)

\* a person with level shoulders of width 40 at (x, y) and hips h below them
\* (above when h is negative), torso confidence c, wrists lw and rw
standing(x, y, h, c, lw, rw) ==
    person(<<x, y, c>>, <<x + 40, y, c>>, lw, rw, <<x, y + h, c>>, <<x + 40, y + h, c>>)

\* a wrist far from everybody
FarWrist == <<-300, -300, 9>>
\* a wrist 12 pixels from the shoulder at (0, 0), and one exactly 20 pixels from it
NearWrist == <<0, 12, 9>>
EdgeWrist == <<0, 20, 9>>

\* The persons the heuristic is applied to. The first stands upright at the
\* origin with its hands away. The others are placed against it: inverted in
\* the image and overlapping it, with a wrist on its shoulder (confident, at
\* the threshold, or unconfident), with an unconfident torso, upright like it,
\* with hips on the shoulders, at exactly 30 and at 29 pixels, with shoulders
\* 400 apart crossing it, and far away.
Persons ==
    { standing(0, 0, 80, 9, FarWrist, FarWrist),
      standing(10, 0, -80, 9, NearWrist, FarWrist),
      standing(10, 0, -80, 9, EdgeWrist, FarWrist),
      standing(10, 0, -80, 9, <<0, 12, 4>>, FarWrist),
      standing(10, 0, -80, 4, NearWrist, FarWrist),
      standing(10, 0, 80, 9, NearWrist, FarWrist),
      standing(10, 0, 0, 9, NearWrist, FarWrist),
      standing(70, 0, -80, 9, FarWrist, <<40, 12, 9>>),
      standing(69, 0, -80, 9, FarWrist, <<40, 12, 9>>),
      person(<<30, -200, 9>>, <<30, 200, 9>>, NearWrist, FarWrist,
             <<-170, -80, 9>>, <<230, -80, 9>>),
      standing(500, 0, -80, 9, FarWrist, FarWrist) }

\* the positions a wrist is moved to: 50 pixels from the shoulder at (0, 0) and
\* further from the other landmarks of the first person; far away; and onto
\* that shoulder
WristTargets == { <<-30, -40, 9>>, FarWrist, NearWrist }

\* sequences of at most n persons
RECURSIVE PoseLists(_)
PoseLists(n) ==
    IF n = 0 THEN { <<>> }
    ELSE LET shorter == PoseLists(n - 1)
         IN  shorter \cup { Append(ps, q) : ps \in shorter, q \in Persons }

\* Six of the persons above, for the frames examined in every listing order:
\* the upright one at the origin; inverted ones with a wrist on its shoulder
\* and with a wrist at the threshold; an upright one with a wrist on its
\* shoulder; an inverted one 29 pixels away; and one far away.
Cast ==
    { standing(0, 0, 80, 9, FarWrist, FarWrist),
      standing(10, 0, -80, 9, NearWrist, FarWrist),
      standing(10, 0, -80, 9, EdgeWrist, FarWrist),
      standing(10, 0, 80, 9, NearWrist, FarWrist),
      standing(69, 0, -80, 9, FarWrist, <<40, 12, 9>>),
      standing(500, 0, -80, 9, FarWrist, FarWrist) }

\* sequences of at most n persons of the cast
RECURSIVE CastLists(_)
CastLists(n) ==
    IF n = 0 THEN { <<>> }
    ELSE LET shorter == CastLists(n - 1)
         IN  shorter \cup { Append(ps, q) : ps \in shorter, q \in Cast }

NoResult == [detected |-> FALSE, description |-> "not called"]
NoMove == [poses |-> <<>>, who |-> 0, hand |-> 0]

\* no pose has been examined
IdleContact ==
    /\ poses = <<>>
    /\ contact = NoResult
    /\ moved = NoMove

\* poses as detect_poses may return them
InitContact ==
    /\ poses \in PoseLists(MaxPersons)
    /\ contact = NoResult
    /\ moved = NoMove

\* poses of persons of the cast
InitContactCast ==
    /\ poses \in CastLists(MaxPersons)
    /\ contact = NoResult
    /\ moved = NoMove

\* detected, description = check_inappropriate_contact(poses)
CheckContact ==
    /\ contact = NoResult
    /\ contact' = check_inappropriate_contact(poses)
    /\ UNCHANGED <<poses, moved>>
    /\ UNCHANGED <<storeVars, trackVars, bufVars, agentVars>>

\* check_inappropriate_contact on the two poses examined before with one wrist
\* of one person at another position and all else unchanged
MoveWrist(who, hand, to) ==
    /\ contact # NoResult
    /\ moved = NoMove
    /\ Len(poses) = 2
    /\ who \in 1 .. 2
    /\ poses[who][hand] # to
    /\ moved' = [poses |-> poses, who |-> who, hand |-> hand]
    /\ poses' = [poses EXCEPT ![who] = [@ EXCEPT ![hand] = to]]
    /\ contact' = check_inappropriate_contact(poses')
    /\ UNCHANGED <<storeVars, trackVars, bufVars, agentVars>>

(***************************************************************************)
(* Specifications.                                                          *)
(***************************************************************************)
Init == InitStore /\ InitTracker /\ IdleBuffers /\ IdleAgent /\ IdleContact

\* the agent's workers and the review interface running concurrently
Next ==
    \/ \E t \in Workers, id \in ShortIds, hasAudio \in BOOLEAN : WorkerDetect(t, id, hasAudio)
    \/ \E op \in {"mark", "delete"}, id \in ShortIds, fb \in Feedbacks : AdminCall(op, id, fb)
    \/ \E t \in Threads, ok \in BOOLEAN : SaveOpen(t, ok)
    \/ \E t \in Threads : SaveDump(t)
    \/ \E t \in Threads, ok \in BOOLEAN : SaveClose(t, ok)

Spec == Init /\ [][Next]_vars

\* one client calling the AlertManager, call after call
NextStore ==
    \/ \E id \in ShortIds, io \in IoOutcomes : AddAlert(id, io)
    \/ \E id \in ShortIds, fb \in Feedbacks, io \in IoOutcomes : MarkAsFalsePositive(id, fb, io)
    \/ \E id \in ShortIds, io \in IoOutcomes : DeleteAlert(id, io)
    \/ \E id \in ShortIds : GetAlertById(id)
    \/ GetAllAlerts

SpecStore == Init /\ [][NextStore]_vars

\* one client adding alerts at any clock reading, marking, deleting and listing them
NextOrder ==
    \/ \E id \in ShortIds, t \in ClockReadings :
          nextObj < MaxObjs /\ AddAlertAt(id, t, None, None, "ok")
    \/ \E id \in ShortIds, fb \in Feedbacks : MarkAsFalsePositive(id, fb, "ok")
    \/ \E id \in ShortIds : DeleteAlert(id, "ok")
    \/ GetAllAlerts

SpecOrder == Init /\ [][NextOrder]_vars

\* one process building its AlertManager (again after a restart), adding alerts
\* with evidence and deleting them
NextFiles ==
    \/ \E can_open \in BOOLEAN, io \in IoOutcomes : Construct(can_open, io)
    \/ \E id \in ShortIds, t \in ClockReadings, hasAudio \in BOOLEAN, io \in IoOutcomes :
          /\ Constructed
          /\ nextObj < MaxEvidenced
          /\ AddAlertAt(id, t, video_path_for("object", t),
                        IF hasAudio THEN audio_path_for("object", t) ELSE None, io)
    \/ \E id \in ShortIds : Constructed /\ DeleteAlert(id, "ok")

\* the process before its AlertManager is built
InitSpecFiles == InitFiles /\ InitTracker /\ IdleBuffers /\ IdleAgent /\ IdleContact

SpecFiles == InitSpecFiles /\ [][NextFiles]_vars

\* the only reader of source 0 reading frames, the audio stream delivering
\* chunks, and evidence being exported in between
NextBuffer ==
    \/ \E ret \in BOOLEAN : ReadFrame(ret)
    \/ \E n \in 1 .. MaxChunk : AudioCallback(n)
    \/ \E ok \in BOOLEAN : SaveAlertVideo(ok)
    \/ \E ok \in BOOLEAN : SaveAlertAudio(ok)

\* freshly built processors of any capacity
InitSpecBuffer == InitStore /\ InitTracker /\ InitBuffers /\ IdleAgent /\ IdleContact

SpecBuffer == InitSpecBuffer /\ [][NextBuffer]_vars

\* the visualization loop and the object detection worker both reading source 0,
\* and the audio stream delivering chunks
NextBufferRace ==
    \/ \E t \in Readers : ReadAppend(t)
    \/ \E t \in Readers : ReadEvict(t)
    \/ \E n \in 1 .. MaxChunk : AudioCallback(n)

SpecBufferRace == InitSpecBuffer /\ [][NextBufferRace]_vars

\* the agent being started and stopped, with its workers running
NextAgent ==
    \/ \E failing \in SUBSET Sources, audio_ok \in BOOLEAN, strict \in BOOLEAN :
          Start(failing, audio_ok, strict)
    \/ \E joined \in SUBSET DOMAIN threads, strict \in BOOLEAN : Stop(joined, strict)
    \/ \E i \in DOMAIN threads : WorkerIterate(i, TRUE, FALSE, FALSE, 0, "none")

\* the agent as constructed, for every configuration
InitSpecAgent == InitStore /\ InitTracker /\ IdleBuffers /\ InitAgent /\ IdleContact

SpecAgent == InitSpecAgent /\ [][NextAgent]_vars

\* the agent being started and stopped, with its main loop, its workers and
\* the speech thread running
NextLifecycle ==
    \/ \E failing \in SUBSET Sources, audio_ok \in BOOLEAN, strict \in BOOLEAN :
          Start(failing, audio_ok, strict)
    \/ \E joined \in SUBSET DOMAIN threads, strict \in BOOLEAN : Stop(joined, strict)
    \/ \E i \in DOMAIN threads, frame \in BOOLEAN :
          WorkerIterate(i, frame, FALSE, FALSE, 0, "none")
    \/ MainLoop
    \/ \E can_load \in BOOLEAN, positive \in BOOLEAN : ProcessAudio(can_load, positive)

\* the agent as constructed on a machine where both detector models load
InitSpecLifecycle == InitSpecAgent /\ loadable = Workers

SpecLifecycle == InitSpecLifecycle /\ [][NextLifecycle]_vars

\* a headless agent with detection enabled being started and stopped while its
\* workers and the speech thread run
NextCancel ==
    \/ \E failing \in SUBSET Sources, audio_ok \in BOOLEAN : Start(failing, audio_ok, FALSE)
    \/ \E joined \in SUBSET DOMAIN threads : Stop(joined, FALSE)
    \/ \E i \in DOMAIN threads, frame \in BOOLEAN :
          WorkerIterate(i, frame, FALSE, FALSE, 0, "none")
    \/ \E can_load \in BOOLEAN, positive \in BOOLEAN : ProcessAudio(can_load, positive)

InitSpecCancel == InitSpecAgent /\ loadable = Workers /\ ~show_visualization /\ ~safe_mode

\* with the scheduling the threads get from the operating system: a worker
\* thread that is alive, and the speech thread, keep taking their steps
SpecCancelFair ==
    /\ InitSpecCancel
    /\ [][NextCancel]_vars
    /\ \A i \in 1 .. (2 * MaxStarts) :
          WF_vars(\E frame \in BOOLEAN : WorkerIterate(i, frame, FALSE, FALSE, 0, "none"))
    /\ WF_vars(\E can_load \in BOOLEAN, positive \in BOOLEAN : ProcessAudio(can_load, positive))

\* the agent started with every capture opening, and its workers passing
\* through their loops with every result and failure of each step; the ids
\* drawn for the alerts are distinct
NextWorker ==
    \/ \E audio_ok \in BOOLEAN : Start({}, audio_ok, FALSE)
    \/ \E i \in DOMAIN threads, fault \in {"none", "read"} :
          WorkerIterate(i, FALSE, FALSE, FALSE, 0, fault)
    \/ \E i \in DOMAIN threads, fault \in {"none", "detect", "overlay"} :
          WorkerIterate(i, TRUE, FALSE, FALSE, 0, fault)
    \/ \E i \in DOMAIN threads, hasAudio \in BOOLEAN,
          fault \in {"none", "export", "add", "overlay"} :
          WorkerIterate(i, TRUE, TRUE, hasAudio, nextObj % NumIds, fault)

\* the agent as constructed with detection enabled, on a machine where both
\* detector models load
InitSpecWorker == InitSpecAgent /\ loadable = Workers /\ ~safe_mode

SpecWorker == InitSpecWorker /\ [][NextWorker]_vars

\* the pose worker applying the contact heuristic to a frame of the cast
NextContactCast == CheckContact

InitSpecContactCast == InitStore /\ InitTracker /\ IdleBuffers /\ IdleAgent /\ InitContactCast

SpecContactCast == InitSpecContactCast /\ [][NextContactCast]_vars

\* the visualization loop and the object detection worker both reading source
\* 0, the worker ending its passes with the overlay write
NextOverlay ==
    \/ \E t \in Readers : ReadAppend(t)
    \/ \E t \in Readers : ReadEvict(t)
    \/ \E drawn \in BOOLEAN : Overlay(drawn)

\* freshly built processors of an agent constructed with visualization on
InitSpecOverlay ==
    /\ InitStore /\ InitTracker /\ InitBuffers /\ InitAgent /\ IdleContact
    /\ show_visualization /\ ~safe_mode /\ loadable = Workers /\ video_sources = 1

SpecOverlay == InitSpecOverlay /\ [][NextOverlay]_vars

\* the agent started and stopped while its workers run, a worker possibly
\* standing between its loop test and its read when stop() is called
NextLateRead ==
    \/ \E audio_ok \in BOOLEAN : Start({}, audio_ok, FALSE)
    \/ \E joined \in SUBSET DOMAIN threads : Stop(joined, FALSE)
    \/ \E i \in DOMAIN threads : WorkerTest(i)
    \/ \E i \in DOMAIN threads, fault \in {"none", "read"} :
          WorkerIterate(i, TRUE, FALSE, FALSE, 0, fault)

SpecLateRead == InitSpecCancel /\ [][NextLateRead]_vars

\* the wall clock read by time.time() and strftime passing to the next second
ClockTick ==
    /\ now < MaxClock
    /\ now' = now + 1
    /\ last' = [op |-> "tick", id |-> -1, fb |-> "", ret |-> FALSE, raised |-> FALSE,
                kept |-> {}]
    /\ UNCHANGED <<mem, disk, files, nextObj, pc, wbuf, call,
                   detected, returned, marked, deleted, adminOps>>
    /\ UNCHANGED <<trackVars, bufVars, agentVars, contactVars>>

\* the started agent whose pose worker reports a contact in frame after frame
\* (one pass takes 0.05 s of sleep besides the detection) while the clock
\* advances, and alerts being deleted from the store
NextEvidence ==
    \/ \E audio_ok \in BOOLEAN : Start({}, audio_ok, FALSE)
    \/ \E i \in DOMAIN threads, hasAudio \in BOOLEAN :
          /\ threads[i].target = "pose"
          /\ WorkerIterate(i, TRUE, TRUE, hasAudio, nextObj % NumIds, "none")
    \/ ClockTick
    \/ \E id \in ShortIds : DeleteAlert(id, "ok")

SpecEvidence == InitSpecWorker /\ [][NextEvidence]_vars

\* the pose worker applying the contact heuristic to the poses of a frame, and
\* again with one wrist moved
NextContact ==
    \/ CheckContact
    \/ \E who \in 1 .. 2, hand \in {9, 10}, to \in WristTargets : MoveWrist(who, hand, to)

InitSpecContact == InitStore /\ InitTracker /\ IdleBuffers /\ IdleAgent /\ InitContact

SpecContact == InitSpecContact /\ [][NextContact]_vars

\* the object detection worker calling the tracker frame after frame
NextTracker ==
    \E dets \in SUBSET Boxes, gap \in 1 .. MaxGap : TrackerTick(dets, gap)

SpecTracker == Init /\ [][NextTracker]_vars

(***************************************************************************)
(* Properties.                                                              *)
(***************************************************************************)
\* the alerts of a list that were built for a detection
of_detections(alerts) == {i \in DOMAIN alerts : alerts[i].obj \in detected}

\* C1: once N concurrent add_alert calls of the workers have all returned (no
\* review call made, the N ids drawn distinct), get_all_alerts() holds exactly
\* the N added records and alerts.json holds the same collection.
C1_ConcurrentAddsAllStored ==
    LET all == get_all_alerts(mem["agent"])
        n == Cardinality(detected)
    IN  ( /\ Quiescent
          /\ adminOps = 0
          /\ returned = detected
          /\ Cardinality({mem["agent"][i].id : i \in of_detections(mem["agent"])}) = n )
        => /\ Cardinality(of_detections(all)) = n
           /\ {all[i].obj : i \in of_detections(all)} = detected
           /\ disk = json_dump(mem["agent"])

\* C2: whenever no call is in progress and alerts.json is a JSON document, it
\* reflects every completed mutation: no alert whose review delete completed is
\* in it, every alert whose review mark completed is flagged in it, and every
\* alert whose add_alert returned is in it unless it was deleted.
C2_NoLostUpdate ==
    (Quiescent /\ disk.state = "json")
    => LET p == disk.data
       IN  /\ \A i \in DOMAIN p : p[i].obj \notin deleted
           /\ \A i \in DOMAIN p : p[i].obj \in marked => p[i].is_false_positive
           /\ \A o \in returned \ deleted : \E i \in DOMAIN p : p[i].obj = o

\* the object was classified missing by the latest tick
classified_missing(i) ==
    /\ tresult.detected
    /\ \E m \in missing_objects : obj_id(m.box) = i /\ m.class \in tresult.names

\* C3: an object detected at consecutive ticks 1s apart and absent since is
\* classified missing at the first tick at which now - last-seen exceeds 3
\* seconds, and at no tick before it.
C3_MissingFiresAtGrace ==
    \A i \in WatchedIds :
        streak[i] >= 2 =>
            /\ phase[i] = "due" => classified_missing(i)
            /\ phase[i] = "grace" => ~classified_missing(i)

\* C4: with only the workers running and every add_alert returned, each positive
\* detection has exactly one record in the manager's list and exactly one in
\* alerts.json.
C4_OneAlertPerDetection ==
    (Quiescent /\ adminOps = 0 /\ returned = detected)
    => \A o \in detected :
          /\ Cardinality({i \in DOMAIN mem["agent"] : mem["agent"][i].obj = o}) = 1
          /\ Cardinality({i \in DOMAIN load_alerts(disk) : load_alerts(disk)[i].obj = o}) = 1

\* C5: the ids of the alerts in the store are pairwise distinct.
C5_IdsDistinct ==
    \A i, j \in DOMAIN mem["agent"] :
        i # j => mem["agent"][i].id # mem["agent"][j].id

\* C6: after an add_alert that raised because the file could not be written, the
\* in-memory list equals the collection the file holds.
C6_FailedAddKeepsMemoryAsPersisted ==
    (last.op = "add" /\ last.raised /\ disk.state = "json")
    => mem["agent"] = disk.data

\* C7: after every mutating call that returned successfully (add_alert,
\* mark_as_false_positive and delete_alert of a known id) of a single writer,
\* alerts.json holds exactly the in-memory list.
C7_MutationRewritesWholeCollection ==
    ( /\ last.op \in {"add", "mark", "delete"}
      /\ ~last.raised
      /\ last.op \in {"mark", "delete"} => last.ret )
    => disk = json_dump(mem["agent"])

\* a successful mark of one of two stored alerts, file and list equal
C7_Witness ==
    /\ last.op = "mark" /\ last.ret /\ ~last.raised
    /\ Len(mem["agent"]) = 2
    /\ disk = json_dump(mem["agent"])

\* C8: after add_alert returned an id, get_alert_by_id(id) is the added record,
\* not flagged and with empty feedback; after mark_as_false_positive(id, note)
\* returned True, get_alert_by_id(id) is flagged and carries the note.
\* (get_alert_by_id reads the list and changes nothing, so what the call made
\* next returns is its value in this state.)
C8_AddThenGetThenMark ==
    /\ (last.op = "add" /\ ~last.raised)
       => LET r == get_alert_by_id(mem["agent"], last.ret)
          IN  /\ r # {}
              /\ \A a \in r : ~a.is_false_positive /\ a.feedback = ""
    /\ (last.op = "mark" /\ ~last.raised /\ last.ret)
       => LET r == get_alert_by_id(mem["agent"], last.id)
          IN  /\ r # {}
              /\ \A a \in r : a.is_false_positive /\ a.feedback = last.fb

\* C9: an alert whose is_false_positive is True keeps it True for as long as it
\* is in the list, whatever call comes next.
C9_FalsePositiveStaysSet ==
    [][ \A i \in DOMAIN mem["agent"] :
          mem["agent"][i].is_false_positive
          => \A j \in DOMAIN mem'["agent"] :
                mem'["agent"][j].obj = mem["agent"][i].obj
                => mem'["agent"][j].is_false_positive ]_vars

\* an alert flagged earlier is still in the list, flagged, after a later add_alert
C9_Witness ==
    /\ last.op = "add" /\ ~last.raised
    /\ \E i \in DOMAIN mem["agent"] :
          /\ mem["agent"][i].is_false_positive
          /\ mem["agent"][i].obj < nextObj - 1

\* C10: after delete_alert(id) returned True, get_alert_by_id(id) is None: no
\* record with that id remains in the list.
C10_DeleteThenGetNotFound ==
    (last.op = "delete" /\ last.ret /\ ~last.raised)
    => get_alert_by_id(mem["agent"], last.id) = {}

\* C11: mark_as_false_positive and delete_alert called with an id no alert of the
\* list has return False, do not raise, and leave the list and alerts.json as
\* they were.
C11_UnknownIdIsRefused ==
    [][ ( /\ last'.op \in {"mark", "delete"}
          /\ get_alert_by_id(mem["agent"], last'.id) = {} )
        => /\ last'.ret = FALSE
           /\ ~last'.raised
           /\ mem' = mem
           /\ disk' = disk ]_vars

\* a delete_alert of an unknown id on a store that holds an alert
C11_Witness ==
    /\ last.op = "delete" /\ ~last.ret /\ ~last.raised
    /\ mem["agent"] # <<>>
    /\ get_alert_by_id(mem["agent"], last.id) = {}

\* C12: get_all_alerts() returns every alert of the list exactly once, ordered
\* by timestamp descending, whatever order the alerts were added in and whatever
\* was marked or deleted before; the call changes neither the list nor alerts.json.
C12_GetAllSortedAndComplete ==
    [][ last'.op = "getAll"
        => LET r == last'.ret
               alerts == mem["agent"]
           IN  /\ mem' = mem
               /\ disk' = disk
               /\ Len(r) = Len(alerts)
               /\ \A i \in DOMAIN alerts :
                     Cardinality({j \in DOMAIN r : r[j] = alerts[i]}) = 1
               /\ \A j \in 1 .. (Len(r) - 1) : r[j].timestamp >= r[j + 1].timestamp ]_vars

\* get_all_alerts() on three alerts whose timestamps neither rise nor fall along
\* the list
C12_Witness ==
    /\ last.op = "getAll"
    /\ Len(mem["agent"]) = 3
    /\ mem["agent"][1].timestamp < mem["agent"][2].timestamp
    /\ mem["agent"][2].timestamp > mem["agent"][3].timestamp
    /\ mem["agent"][1].timestamp > mem["agent"][3].timestamp
    /\ last.ret # mem["agent"]

\* C13: delete_alert of a known id removes the record, rewrites alerts.json and
\* returns True also when os.remove fails on an evidence file of the record: the
\* failure does not leave the method and the record does not stay in the list.
C13_DeleteSurvivesRemoveFailure ==
    [][ LET hit == get_alert_by_id(mem["agent"], last'.id)
        IN  ( /\ last'.op = "delete"
              /\ hit # {}
              /\ last'.kept # {} )
            => /\ ~last'.raised
               /\ last'.ret = TRUE
               /\ \A a \in hit : \A j \in DOMAIN mem'["agent"] : mem'["agent"][j].obj # a.obj
               /\ Len(mem'["agent"]) = Len(mem["agent"]) - 1
               /\ disk' = json_dump(mem'["agent"]) ]_vars

\* a delete_alert that returned True although both evidence files of the record
\* are still there
C13_Witness ==
    /\ last.op = "delete" /\ last.ret /\ ~last.raised
    /\ Cardinality(last.kept) = 2
    /\ last.kept \subseteq files
    /\ disk = json_dump(mem["agent"])

\* C14: when alerts.json exists and cannot be opened, or holds no JSON document,
\* AlertManager() does not raise and its list is empty.
C14_LoadFailureGivesEmptyStore ==
    [][ ( /\ last'.op = "construct"
          /\ disk.state # "absent"
          /\ disk.state = "corrupt" \/ ~last'.ret )
        => /\ ~last'.raised
           /\ mem'["agent"] = <<>>
           /\ disk' = disk ]_vars

\* an AlertManager built, after a restart, over the file an interrupted write
\* of an earlier add_alert left: it could be opened and holds no JSON document
C14_Witness ==
    /\ last.op = "construct" /\ last.ret /\ ~last.raised
    /\ disk.state = "corrupt"
    /\ nextObj > 0
    /\ mem["agent"] = <<>>

\* C15: for every capacity C, once a single reader has pushed N > C frames the
\* frame buffer holds exactly the last C frames pushed, oldest first.
C15_BufferHoldsLastC ==
    reads > max_buffer_size
    => frame_buffer = [i \in 1 .. max_buffer_size |-> reads - max_buffer_size + i]

\* two frames more than a capacity of two have been pushed
C15_Witness ==
    /\ max_buffer_size = 2
    /\ reads = 4
    /\ frame_buffer = <<3, 4>>

\* C16: after every completed push (a read_frame that returns a frame, an
\* audio_callback) the buffer is no longer than its capacity and holds the most
\* recent items delivered, in order: what was evicted is the oldest.
C16_PushKeepsWithinCapacity ==
    [][ /\ (\E t \in Readers : rpc[t] = "appended" /\ rpc'[t] = "idle")
           => /\ Len(frame_buffer') <= max_buffer_size
              /\ frame_buffer' = [i \in 1 .. Len(frame_buffer') |->
                                     reads' - Len(frame_buffer') + i]
        /\ samples' > samples
           => /\ Len(audio_buffer') <= audio_max_buffer_size
              /\ audio_buffer' = [i \in 1 .. Len(audio_buffer') |->
                                     samples' - Len(audio_buffer') + i] ]_vars

\* C17: save_alert_video and save_alert_audio return None without raising when
\* the buffer is empty, and whatever they return or raise they leave both
\* buffers as they were.
C17_ExportLeavesBuffer ==
    [][ /\ xlast'.op \in {"save_video", "save_audio"}
           => frame_buffer' = frame_buffer /\ audio_buffer' = audio_buffer
        /\ (xlast'.op = "save_video" /\ frame_buffer = <<>>)
           => xlast'.ret = None /\ ~xlast'.raised
        /\ (xlast'.op = "save_audio" /\ audio_buffer = <<>>)
           => xlast'.ret = None /\ ~xlast'.raised ]_vars

\* a clip was exported from a full frame buffer, which is still full
C17_Witness ==
    /\ xlast.op = "save_video" /\ xlast.ret # None
    /\ xlast.ret \in files
    /\ Len(frame_buffer) = max_buffer_size

\* C18: a start() called while the agent is running changes nothing: it opens
\* no capture and no stream, names no window and creates no worker.
C18_StartWhileRunningIsNoop ==
    [][ (alast'.op = "start" /\ running)
        => /\ alast'.outcome = "noop"
           /\ UNCHANGED <<running, caps, windows, threads, recording, stream, safe_mode>> ]_vars

\* a start() that returned at once while both workers of the first start() run
C18_Witness ==
    /\ alast.op = "start" /\ alast.outcome = "noop"
    /\ running
    /\ starts = 1
    /\ Len(threads) = 2
    /\ \A i \in DOMAIN threads : threads[i].alive

\* C19: when a capture fails to open during start(), every capture is released
\* afterwards, those opened before the failing one included, no worker has been
\* created and the agent is not running.
C19_FailedStartReleasesAll ==
    [][ (alast'.op = "start" /\ alast'.outcome = "failed")
        => /\ \A i \in Sources : caps'[i] = "none"
           /\ threads' = threads
           /\ ~running'
           /\ ~recording' /\ ~stream' ]_vars

\* a start() in which the third capture failed after two had been opened
C19_Witness ==
    /\ alast.op = "start" /\ alast.outcome = "failed" /\ alast.at = 2
    /\ ~running
    /\ threads = <<>>
    /\ \A i \in Sources : caps[i] = "none"

\* C20: when a detector's model cannot be loaded the agent runs in safe mode:
\* once a worker has met the failure, no detection worker is alive, while the
\* captures stay open.
C20_CapabilityFailureGivesSafeMode ==
    (running /\ alast.op = "iterate" /\ alast.outcome = "load_failed")
    => /\ safe_mode
       /\ \A i \in DOMAIN threads : ~threads[i].alive
       /\ \A i \in Sources : caps[i] = "open"

\* C21: in safe mode capture and buffering stay active: while the agent runs in
\* safe mode, each pass of the main loop reads every configured capture, and
\* the audio stream that fills the audio buffer is open.
C21_SafeModeKeepsCapturing ==
    (running /\ safe_mode /\ alast.op = "main_loop")
    => /\ alast.outcome = "read"
       /\ recording
       /\ stream

\* C22: an exception raised at any step of a worker pass (the read, the
\* detector, the evidence export, the add to the store, the overlay) is caught
\* and followed by the one-second backoff, and the worker is still alive in its
\* loop afterwards, ready for its next pass.
C22_WorkerSurvivesException ==
    [][ (alast'.op = "iterate" /\ alast'.outcome \in Caught)
        => /\ running'
           /\ alast'.slept = "backoff"
           /\ threads'[alast'.at].alive
           /\ threads' = threads ]_vars

\* a worker's add to the store raised after an earlier alert was stored, and
\* the worker is alive
C22_Witness ==
    /\ alast.op = "iterate" /\ alast.outcome = "add_raised"
    /\ threads[alast.at].alive
    /\ Len(mem["agent"]) >= 2

\* C23: a worker pass whose read returned no frame is followed by a delay
\* before the next read.
C23_NoFrameIsFollowedByDelay ==
    (alast.op = "iterate" /\ alast.outcome = "no_frame")
    => /\ alast.slept # "none"
       /\ threads[alast.at].alive

\* C26: on a positive detection whose video or audio export returned None, and
\* where no later call of the pass raises before the add returns, the alert is
\* still built and added: it is the new last alert of the agent's store and it
\* carries the paths the exports returned, None included.
C26_MissingEvidenceStillAlerts ==
    [][ ( /\ alast'.op = "iterate"
          /\ alast'.outcome \in {"alert", "overlay_raised"}
          /\ alast'.exports # <<>>
          /\ None \in {alast'.exports[1], alast'.exports[2]} )
        => LET alerts == mem'["agent"]
               alert == alerts[Len(alerts)]
           IN  /\ Len(alerts) = Len(mem["agent"]) + 1
               /\ SubSeq(alerts, 1, Len(alerts) - 1) = mem["agent"]
               /\ alert.video_path = alast'.exports[1]
               /\ alert.audio_path = alast'.exports[2] ]_vars

\* a pass with a positive detection and an empty audio buffer has added its
\* alert, whose audio path is None
C26_Witness ==
    /\ alast.op = "iterate" /\ alast.outcome = "alert"
    /\ alast.exports # <<>>
    /\ alast.exports[2] = None
    /\ mem["agent"] # <<>>
    /\ mem["agent"][Len(mem["agent"])].audio_path = None
    /\ mem["agent"][Len(mem["agent"])].video_path # None
    /\ disk = json_dump(mem["agent"])

\* C24: stop() may be called from any state (never started, after a start that
\* failed, running, already stopped): it does not raise, and when it returns
\* the cancellation signal is set and every capture has been released.
C24_StopIsSafeFromAnyState ==
    alast.op = "stop"
    => /\ ~alast.raised
       /\ ~running
       /\ \A i \in Sources : caps[i] = "none"

C27_SpeechPipelineEmitsAlerts ==
    (alast.op = "speech" /\ alast.outcome = "positive")
    => \E k \in DOMAIN mem["agent"] : mem["agent"][k].alert_type = "offensive_language"

\* the key a clip path was named from: the alert_id argument of save_alert_video
\* / save_alert_audio, which the workers build as "<pipeline>_<int(time.time())>"
key_of_path(path) == <<path[1], path[2]>>

\* the key that is the id of an alert: a string of eight hexadecimal digits,
\* which no "<pipeline>_<seconds>" string equals
key_of_id(id) == <<"id", id>>

\* C28: each evidence clip a stored alert refers to is named from that alert's
\* id: the key in the path is the id of the alert that carries the path.
C28_EvidenceNamedFromAlertId ==
    \A k \in DOMAIN mem["agent"] :
        LET alert == mem["agent"][k]
        IN  \A path \in {alert.video_path, alert.audio_path} \ {None} :
                key_of_path(path) = key_of_id(alert.id)

\* twice the vector from the hip midpoint to the shoulder midpoint of a person
trunk2(p) ==
    << p[5][1] + p[6][1] - p[11][1] - p[12][1], p[5][2] + p[6][2] - p[11][2] - p[12][2] >>

dot(u, v) == u[1] * v[1] + u[2] * v[2]

\* some confident wrist of p is less than the contact threshold from a
\* confident shoulder or hip of q
wrist_on_torso(p, q) ==
    \E w \in {9, 10}, b \in {5, 6, 11, 12} :
        /\ p[w][3] >= MinConfidence
        /\ q[b][3] >= MinConfidence
        /\ dist2(p[w], q[b]) < ContactThreshold * ContactThreshold

\* the three conditions of the heuristic on a pair of persons
three_conditions(p, q) ==
    /\ \E a \in {5, 6, 11, 12}, b \in {5, 6, 11, 12} :
          /\ p[a][3] >= MinConfidence
          /\ q[b][3] >= MinConfidence
          /\ dist2(p[a], q[b]) < DistanceThreshold * DistanceThreshold
    /\ dot(trunk2(p), trunk2(q)) < 0
    /\ wrist_on_torso(p, q) \/ wrist_on_torso(q, p)

other(who) == 3 - who

\* the premises of the two-person example for the wrist hand of person who:
\* shoulder midpoints 10 pixels apart, trunk vectors in opposite directions,
\* that wrist less than 20 pixels from a shoulder of the other person, and all
\* keypoints confident
example_premises(ps, who, hand) ==
    /\ Len(ps) = 2
    /\ LET m1 == << ps[1][5][1] + ps[1][6][1], ps[1][5][2] + ps[1][6][2], 0 >>
           m2 == << ps[2][5][1] + ps[2][6][1], ps[2][5][2] + ps[2][6][2], 0 >>
       IN  dist2(m1, m2) = 4 * 10 * 10
    /\ LET u == trunk2(ps[1])
           v == trunk2(ps[2])
       IN  u[1] * v[2] - u[2] * v[1] = 0 /\ dot(u, v) < 0
    /\ \E s \in {5, 6} : dist2(ps[who][hand], ps[other(who)][s]) < 20 * 20
    /\ \A i \in 1 .. 2 : \A k \in DOMAIN ps[i] : ps[i][k][3] >= MinConfidence

\* the wrist hand of person who is at least 50 pixels from every shoulder and
\* hip of the other person
wrist_away(ps, who, hand) ==
    \A b \in {5, 6, 11, 12} : dist2(ps[who][hand], ps[other(who)][b]) >= 50 * 50

\* C30 as stated: two persons who meet the premises of the example give a
\* detection with a description, and with that wrist moved 50 pixels from every
\* torso landmark of the other person and all else unchanged they give none.
C30_ExampleAsStated ==
    contact # NoResult
    => /\ (\E who \in 1 .. 2, hand \in {9, 10} : example_premises(poses, who, hand))
            => (contact.detected /\ contact.description # "")
       /\ ( /\ moved # NoMove
            /\ example_premises(moved.poses, moved.who, moved.hand)
            /\ wrist_away(poses, moved.who, moved.hand) )
            => ~contact.detected

\* C30 amended: the example gives a detection when, besides its premises, some
\* shoulder or hip of one person is less than 30 pixels from one of the other;
\* and with the wrist moved away it gives none when no other wrist is less
\* than 20 pixels from a shoulder or hip of the other person.
C30_ExampleWithCloseTorsos ==
    contact # NoResult
    => /\ ( /\ \E who \in 1 .. 2, hand \in {9, 10} : example_premises(poses, who, hand)
            /\ \E a \in {5, 6, 11, 12}, b \in {5, 6, 11, 12} :
                  dist2(poses[1][a], poses[2][b]) < 30 * 30 )
            => (contact.detected /\ contact.description # "")
       /\ ( /\ moved # NoMove
            /\ example_premises(moved.poses, moved.who, moved.hand)
            /\ wrist_away(poses, moved.who, moved.hand)
            /\ \A who \in 1 .. 2, hand \in {9, 10}, b \in {5, 6, 11, 12} :
                  <<who, hand>> # <<moved.who, moved.hand>>
                  => dist2(poses[who][hand], poses[other(who)][b]) >= 20 * 20 )
            => ~contact.detected

\* the example with close torsos, examined after its wrist was moved 50 pixels
\* away: no detection
C30_Witness ==
    /\ contact # NoResult
    /\ moved # NoMove
    /\ example_premises(moved.poses, moved.who, moved.hand)
    /\ check_inappropriate_contact(moved.poses).detected
    /\ wrist_away(poses, moved.who, moved.hand)
    /\ ~wrist_away(moved.poses, moved.who, moved.hand)
    /\ ~contact.detected

\* the derived ids of the watched-class boxes among dets
watched_ids(dets) == {obj_id(b) : b \in {x \in dets : x.cls \in watched_classes}}

\* C31: a tracker tick whose previous tracked set is empty (the first tick
\* among them) emits no alert: it returns (False, "") and leaves the tracked
\* set seeded with that tick's watched detections.
C31_EmptyTrackerSeedsWithoutAlert ==
    [][ DOMAIN tracked_objects = {}
        => /\ ~tresult'.detected
           /\ tresult'.names = {}
           /\ missing_objects' = {}
           /\ DOMAIN tracked_objects' = watched_ids(tdets') ]_vars

\* the first tick saw a laptop and a cup and seeded the tracker with them
C31_Witness ==
    /\ tnow > 0
    /\ streak = [i \in WatchedIds |-> IF i \in DOMAIN tracked_objects THEN 1 ELSE 0]
    /\ Cardinality(DOMAIN tracked_objects) >= 2
    /\ ~tresult.detected
    /\ \A i \in WatchedIds : phase[i] \in {"present", "unseen"}

\* C32: after every tick the tracked set is exactly the watched-class
\* detections of that tick, keyed by their derived ids: an id absent from the
\* tick is dropped, classified missing or not, and no object of another class
\* is tracked.
C32_TrackedIsCurrentWatched ==
    [][ /\ DOMAIN tracked_objects' = watched_ids(tdets')
        /\ \A i \in DOMAIN tracked_objects' :
              /\ tracked_objects'[i].class \in watched_classes
              /\ tracked_objects'[i].box \in tdets'
        /\ \A i \in DOMAIN tracked_objects :
              i \notin watched_ids(tdets') => i \notin DOMAIN tracked_objects' ]_vars

\* a tick in which a tracked object was absent within the grace period and a
\* person was detected: the object is not tracked any more, nor is the person
C32_Witness ==
    /\ \E i \in WatchedIds : phase[i] = "grace" /\ i \notin DOMAIN tracked_objects
    /\ \E b \in tdets : b.cls \notin watched_classes
    /\ DOMAIN tracked_objects # {}
    /\ ~tresult.detected

C34_LastSeenIsLatestTick ==
    /\ \A i \in DOMAIN tracked_objects : tracked_objects[i].last_seen = tnow
    /\ [][ \A m \in missing_objects' : tnow' - m.last_seen = tnow' - tnow ]_vars

\* an object was reported missing on the interval between two ticks alone
C34_Witness ==
    /\ tresult.detected
    /\ \E m \in missing_objects : tnow - m.last_seen = GracePeriod + 1
    /\ \E i \in DOMAIN tracked_objects : tracked_objects[i].last_seen = tnow

\* the evidence files an alert record refers to
evidence_of(alert) == {alert.video_path, alert.audio_path} \ {None}

\* no two stored alerts refer to one evidence file
evidence_is_exclusive ==
    \A i \in DOMAIN mem["agent"], j \in DOMAIN mem["agent"] :
        i # j => evidence_of(mem["agent"][i]) \cap evidence_of(mem["agent"][j]) = {}

\* a delete_alert call removes no file that a remaining alert refers to
delete_spares_others ==
    last'.op = "delete"
    => \A k \in DOMAIN mem'["agent"] :
           evidence_of(mem'["agent"][k]) \cap (files \ files') = {}

\* C35: no two alerts in the store refer to the same evidence file, and
\* deleting an alert removes no evidence file that an alert still stored
\* refers to, alerts of one pipeline created within one clock second included.
C35_EvidenceIsNotShared ==
    /\ []evidence_is_exclusive
    /\ [][delete_spares_others]_vars

\* C36: once stop() has returned every video capture stays released: while the
\* agent is stopped no worker that outlived the join and no later read_frame
\* call opens a capture again.
C36_CapturesStayReleased ==
    ~running => \A i \in Sources : caps[i] = "none"

\* the workers of a pipeline that are alive
alive_workers(target) ==
    {i \in DOMAIN threads : threads[i].alive /\ threads[i].target = target}

\* C37: at any time at most one worker of each pipeline (contact, theft) is
\* alive, over every sequence of start() and stop() calls, a start() after a
\* stop() whose join timed out included.
C37_OneWorkerPerPipeline ==
    \A target \in Workers : Cardinality(alive_workers(target)) <= 1

\* no read_frame call is under way on source 0
reads_completed == \A t \in Readers : rpc[t] = "idle"

\* C38: with the visualization loop and a worker calling read_frame on one
\* capture concurrently, and the worker overwriting the newest slot with its
\* overlay frame, the rolling buffer holds only frames captured from the
\* source, in capture order, and once the calls have completed it is no longer
\* than its capacity.
C38_BufferHoldsCapturedFramesInOrder ==
    /\ \A i \in DOMAIN frame_buffer : frame_buffer[i] \in 1 .. reads
    /\ \A i \in DOMAIN frame_buffer, j \in DOMAIN frame_buffer :
          i < j => frame_buffer[i] < frame_buffer[j]
    /\ reads_completed => Len(frame_buffer) <= max_buffer_size

\* the orders in which n persons can be listed
orderings(n) == { f \in [1 .. n -> 1 .. n] : \A i, j \in 1 .. n : f[i] = f[j] => i = j }

\* the persons of ps listed in the order f
listed(ps, f) == [i \in 1 .. Len(ps) |-> ps[f[i]]]

\* C39: the result of check_inappropriate_contact does not depend on the order
\* in which the persons are listed: every permutation of the same persons
\* gives the same (detected, description).
C39_ResultIgnoresOrder ==
    contact # NoResult
    => \A f \in orderings(Len(poses)) :
           check_inappropriate_contact(listed(poses, f)) = contact

\* three persons examined, of whom only the second and the third are in contact
C39_Witness ==
    /\ contact.detected
    /\ Len(poses) = 3
    /\ three_conditions(poses[2], poses[3])
    /\ ~three_conditions(poses[1], poses[2])
    /\ ~three_conditions(poses[1], poses[3])

=============================================================================
